---- MODULE Spec2Model ----
(***************************************************************************)
(* Model of the DMS bulk-upload reconciliation engine:                     *)
(*   collect_questions.py          collect_all_questions                   *)
(*   hul_processor_interactive.py  process_hul_sales_interactive           *)
(*   app.py                        the "Collect All Questions" /           *)
(*                                 "Process with Answers" flow             *)
(*                                                                         *)
(* Names (products, merchants) are strings.  The character content of      *)
(* every name of the universe is given by the table Chars, so that the     *)
(* string functions of the code (normalisation, lower-casing, substring,   *)
(* similarity ratio, alphabetical order) are computed on characters.       *)
(* Quantities and stocks are integers (the code uses floats that hold      *)
(* integral values for integral sheets).  Every catalog row of the model   *)
(* has an available_stock value (the code maps a missing one to +inf).     *)
(***************************************************************************)
EXTENDS Integers, Sequences, FiniteSets, TLC

\* The element of a one-element set.  The({e : x \in {d}}) is e with x standing
\* for the value of d, computed once.
The(S) == CHOOSE v \in S : TRUE

\* Score bands and thresholds of the code.
PARTIAL_MATCH_MIN_SCORE == 70

FullScore == 100

RelatedMinLen == 10

RelatedMinRatio == 80

(***************************************************************************)
(* Characters of the names used in the model.                              *)
(***************************************************************************)
Chars ==
   ("widget pro" :> <<"w", "i", "d", "g", "e", "t", " ", "p", "r", "o">>) @@
   ("widget pro max" :> <<"w", "i", "d", "g", "e", "t", " ", "p", "r", "o", " ", "m", "a", "x">>) @@
   ("gizmo" :> <<"g", "i", "z", "m", "o">>) @@
   ("Pro  Widget" :> <<"P", "r", "o", " ", " ", "W", "i", "d", "g", "e", "t">>) @@
   ("widxxx pro" :> <<"w", "i", "d", "x", "x", "x", " ", "p", "r", "o">>) @@
   ("widgeqqqqqqq pro" :> <<"w", "i", "d", "g", "e", "q", "q", "q", "q", "q", "q", "q", " ", "p", "r", "o">>) @@
   ("Shop One" :> <<"S", "h", "o", "p", " ", "O", "n", "e">>) @@
   ("shop  one" :> <<"s", "h", "o", "p", " ", " ", "o", "n", "e">>) @@
   ("Asha" :> <<"A", "s", "h", "a">>) @@
   ("Nobody" :> <<"N", "o", "b", "o", "d", "y">>) @@
   ("Oasis" :> <<"O", "a", "s", "i", "s">>) @@
   ("shop one" :> <<"s", "h", "o", "p", " ", "o", "n", "e">>) @@
   ("02/01/2024" :> <<"0", "2", "/", "0", "1", "/", "2", "0", "2", "4">>) @@
   ("01/02/2024" :> <<"0", "1", "/", "0", "2", "/", "2", "0", "2", "4">>) @@
   ("" :> <<>>)

\* Code points, for the alphabetical order of list.sort() on strings.
Code ==
   (" " :> 32) @@ ("/" :> 47) @@ ("0" :> 48) @@ ("1" :> 49) @@ ("2" :> 50) @@
   ("4" :> 52) @@ ("A" :> 65) @@ ("N" :> 78) @@ ("O" :> 79) @@ ("P" :> 80) @@
   ("S" :> 83) @@ ("W" :> 87) @@ ("a" :> 97) @@ ("b" :> 98) @@ ("d" :> 100) @@
   ("e" :> 101) @@ ("g" :> 103) @@ ("h" :> 104) @@ ("i" :> 105) @@ ("m" :> 109) @@
   ("n" :> 110) @@ ("o" :> 111) @@ ("p" :> 112) @@ ("q" :> 113) @@ ("r" :> 114) @@
   ("s" :> 115) @@ ("t" :> 116) @@ ("w" :> 119) @@ ("x" :> 120) @@ ("y" :> 121) @@
   ("z" :> 122)

\* str.lower() on one character.
LowerChar(c) ==
   CASE c = "A" -> "a" [] c = "N" -> "n" [] c = "O" -> "o"
     [] c = "P" -> "p" [] c = "S" -> "s" [] c = "W" -> "w"
     [] OTHER -> c

\* str.lower()
Lower(s) == The({[i \in 1..Len(a) |-> LowerChar(a[i])] : a \in {s}})

RECURSIVE SplitFrom(_, _, _, _)
\* str.split(): the maximal runs of non-blank characters of s, in order.
SplitFrom(s, i, cur, acc) ==
   IF i > Len(s)
   THEN IF cur = <<>> THEN acc ELSE Append(acc, cur)
   ELSE IF s[i] = " "
        THEN SplitFrom(s, i + 1, <<>>, IF cur = <<>> THEN acc ELSE Append(acc, cur))
        ELSE SplitFrom(s, i + 1, Append(cur, s[i]), acc)

Split(s) == The({SplitFrom(a, 1, <<>>, <<>>) : a \in {s}})

RECURSIVE JoinFrom(_, _)
\* " ".join(tokens)
JoinFrom(tokens, i) ==
   IF i > Len(tokens) THEN <<>>
   ELSE IF i = Len(tokens) THEN tokens[i]
   ELSE tokens[i] \o <<" ">> \o JoinFrom(tokens, i + 1)

Join(tokens) == The({JoinFrom(tk, 1) : tk \in {tokens}})

\* normalize_name on characters: " ".join(str(name).strip().split())
normalize_chars(s) == Join(Split(s))

RECURSIVE CharsLessFrom(_, _, _)
\* Python's s < t on strings: lexicographic by code point, a proper prefix first.
CharsLessFrom(s, t, i) ==
   IF i > Len(t) THEN FALSE
   ELSE IF i > Len(s) THEN TRUE
   ELSE IF Code[s[i]] < Code[t[i]] THEN TRUE
   ELSE IF Code[s[i]] > Code[t[i]] THEN FALSE
   ELSE CharsLessFrom(s, t, i + 1)

CharsLess(s, t) == CharsLessFrom(s, t, 1)

\* sorted(tokens): the tokens in alphabetical order (equal tokens keep their
\* input order).
SortTokens(tokens) ==
   The({[k \in 1..Len(tk) |->
           tk[CHOOSE i \in 1..Len(tk) :
                 Cardinality({j \in 1..Len(tk) :
                                 \/ CharsLess(tk[j], tk[i])
                                 \/ (~CharsLess(tk[i], tk[j]) /\ j < i)}) = k - 1]] :
          tk \in {tokens}})

\* x in s (Python substring test) on characters.
IsSubstring(x, s) ==
   \E a \in {x}, b \in {s} :
      \E i \in 0..(Len(b) - Len(a)) : SubSeq(b, i + 1, i + Len(a)) = a

Max2(a, b) == IF a >= b THEN a ELSE b

\* Fault: the requested quantity is taken whatever the batch holds.
Min2_Uncapped(a, b) == b

Min2(a, b) == IF a <= b THEN a ELSE b

\* The largest element of a non-empty finite set of integers.
SetMax(S) == CHOOSE m1 \in S : \A m2 \in S : m2 <= m1

\* One row of the longest-common-subsequence table, for character c of s, from
\* the previous row prev.  Rows are indexed 1..Len(t)+1, column 0 first.
LcsRow(prev, c, t) ==
   [col \in 1..(Len(t) + 1) |->
      IF col = 1 THEN 0
      ELSE SetMax({Max2(prev[k + 1], prev[k] + (IF c = t[k] THEN 1 ELSE 0)) :
                     k \in 1..(col - 1)})] \o <<>>

RECURSIVE LcsFrom(_, _, _, _)
LcsFrom(s, t, i, prev) ==
   IF i > Len(s) THEN prev[Len(t) + 1]
   ELSE The({LcsFrom(s, t, i + 1, row) : row \in {LcsRow(prev, s[i], t)}})

\* The length of a longest common subsequence of s and t: the number of
\* matched characters M of the similarity ratio.
LcsLen(s, t) ==
   The({LcsFrom(a, b, 1, [col \in 1..(Len(b) + 1) |-> 0] \o <<>>) : a \in {s}, b \in {t}})

\* int(round(100 * 2*M / T)), Python's round-half-even.
RoundRatio(m, total) ==
   The({IF 2 * rrRem > total THEN rrQuo + 1
        ELSE IF 2 * rrRem = total THEN (IF rrQuo % 2 = 0 THEN rrQuo ELSE rrQuo + 1)
        ELSE rrQuo :
          rrQuo \in {(200 * m) \div total}, rrRem \in {(200 * m) % total}})

\* fuzz.ratio: 0 when either string is empty, else 100 * 2*M/T where M is the
\* number of matched characters and T the total length.
fuzz_ratio(s, t) ==
   IF Len(s) = 0 \/ Len(t) = 0 THEN 0
   ELSE RoundRatio(LcsLen(s, t), Len(s) + Len(t))

\* fuzz.token_sort_ratio: lower-case, split, sort the tokens, join, ratio.
token_sort(s) == Join(SortTokens(Split(Lower(s))))

token_sort_ratio(s, t) ==
   The({fuzz_ratio(a, b) : a \in {token_sort(s)}, b \in {token_sort(t)}})


(***************************************************************************)
(* Small helpers on sequences and sets.                                    *)
(***************************************************************************)
\* The elements of a finite set of integers, ascending.
Ascending(S) ==
   The({[k \in 1..Cardinality(T) |->
           CHOOSE i \in T : Cardinality({j \in T : j < i}) = k - 1] : T \in {S}})

\* The subsequence of seq at the positions in S, in order.
SelectIdx(seq, S) ==
   The({[k \in 1..Len(kept) |-> q[kept[k]]] : q \in {seq}, kept \in {Ascending(S)}})

Range(seq) == The({{q[i] : i \in 1..Len(q)} : q \in {seq}})

RECURSIVE SumFrom(_, _)
SumFrom(seq, i) == IF i > Len(seq) THEN 0 ELSE seq[i] + SumFrom(seq, i + 1)

\* sum(seq)
SumSeq(seq) == The({SumFrom(q, 1) : q \in {seq}})

\* list(dict.fromkeys(seq)): the distinct elements in first-occurrence order.
Distinct(seq) ==
   The({SelectIdx(q, {i \in 1..Len(q) : \A j \in 1..(i - 1) : q[j] # q[i]}) : q \in {seq}})

(***************************************************************************)
(* Name Matcher.  The string functions are tabulated once over the names   *)
(* of the model.                                                           *)
(***************************************************************************)
\* The names of the model.
Universe == DOMAIN Chars

\* " ".join(str(name).strip().split()) for every name of the model
NormalizedNames == [name \in Universe |-> normalize_chars(Chars[name])]

\* normalize_name(name)
normalize_name(name) == NormalizedNames[name]

\* normalize_name(name).lower() for every name of the model
LowerNames == [name \in Universe |-> Lower(NormalizedNames[name])]

\* fuzz.token_sort_ratio between the normalised names of the model
TokenSortRatios ==
   [q \in Universe |->
      [c \in Universe |-> token_sort_ratio(NormalizedNames[q], NormalizedNames[c])]]

\* The scorer of extractOne on two normalised names.
Scorer(query, choice) ==
   TokenSortRatios[CHOOSE n \in Universe : NormalizedNames[n] = query]
                  [CHOOSE n \in Universe : NormalizedNames[n] = choice]

\* The order of str on the names of the model.
NameOrder == [n1 \in Universe |-> [n2 \in Universe |-> CharsLess(Chars[n1], Chars[n2])]]

NameLess(n1, n2) == NameOrder[n1][n2]

NoMatch == [match |-> "", score |-> 0]

\* process.extractOne(query, choice_list, scorer=fuzz.token_sort_ratio): the
\* position of the first choice that reaches the highest score, 0 for no choice.
extractOne(query, choice_list) ==
   The({IF Len(scores) = 0 THEN [pos |-> 0, score |-> 0]
        ELSE The({[pos |-> best, score |-> scores[best]] :
                    best \in {CHOOSE i \in 1..Len(scores) :
                                 /\ \A j \in 1..Len(scores) : scores[j] <= scores[i]
                                 /\ \A j \in 1..(i - 1) : scores[j] < scores[i]}}) :
          scores \in {[i \in 1..Len(choice_list) |-> Scorer(query, choice_list[i])]}})

\* The body of fuzzy_match_name once the input is normalised and the choices
\* with an empty normalised name are dropped: normalized_choices maps a
\* normalised name to the last choice that has it.
fuzzy_choice(normalized_input, kept, min_score) ==
   IF Len(normalized_input) = 0 THEN NoMatch
   ELSE The({The({IF result.pos = 0 \/ result.score < min_score THEN NoMatch
                  ELSE [match |->
                           kept[CHOOSE i \in 1..Len(kept) :
                                   /\ normalize_name(kept[i]) = keys[result.pos]
                                   /\ \A j \in (i + 1)..Len(kept) :
                                         normalize_name(kept[j]) # keys[result.pos]],
                        score |-> result.score] :
                    result \in {extractOne(normalized_input, keys)}}) :
               keys \in {Distinct([i \in 1..Len(kept) |-> normalize_name(kept[i])])}})

\* fuzzy_match_name(name, choices, min_score): the best fuzzy match of name
\* among choices and its score, ("", 0) when there is none.
fuzzy_match_name(name, choices, min_score) ==
   The({fuzzy_choice(normalized_input, kept, min_score) :
          normalized_input \in {normalize_name(name)},
          kept \in {SelectIdx(choices, {i \in 1..Len(choices) :
                                           Len(normalize_name(choices[i])) > 0})}})

\* exact_match_name(name, choices): the first choice equal to name up to case
\* and whitespace, with score 100; ("", 0) when there is none.
exact_match_name(name, choices) ==
   The({IF Len(LowerNames[name]) = 0 \/ hits = {} THEN NoMatch
        ELSE [match |-> choices[CHOOSE i \in hits : \A j \in hits : i <= j],
              score |-> 100] :
          hits \in {{i \in 1..Len(choices) : LowerNames[choices[i]] = LowerNames[name]}}})

(***************************************************************************)
(* Inventory Ledger and Variant & Relation Resolver.                       *)
(* A catalog is the "Product Details" sheet: a sequence of rows            *)
(* [product_name, product_id, batch_id, available_stock].                  *)
(***************************************************************************)
\* The value pandas gives an empty cell of the sheet.
NaN == "NaN"

\* str(r.get("product_id", "")): the text of the cell, "nan" for an empty
\* cell.
str(cell) == IF cell = NaN THEN "nan" ELSE cell

\* product_df["product_name"]...tolist()
product_names(cat) == [i \in 1..Len(cat) |-> cat[i].product_name]

\* The keys of batch_inventory in dict (first insertion) order.
InventoryKeys(cat) == Distinct(product_names(cat))

\* sorted(batches, key=lambda x: -x["available_stock"]): descending stock,
\* batches of equal stock in their input order.
SortBatches(batches) ==
   The({[k \in 1..Len(b) |->
           b[CHOOSE i \in 1..Len(b) :
                Cardinality({j \in 1..Len(b) :
                   \/ b[j].available_stock > b[i].available_stock
                   \/ (b[j].available_stock = b[i].available_stock /\ j < i)}) = k - 1]] :
          b \in {batches}})

\* The batches of the catalog rows of one product name, in row order.
BatchesOf(cat, name) ==
   The({[i \in 1..Len(rows) |->
           [batch_id |-> rows[i].batch_id,
            available_stock |-> rows[i].available_stock,
            product_id |-> str(rows[i].product_id)]] :
          rows \in {SelectIdx(cat, {i \in 1..Len(cat) : cat[i].product_name = name})}})

\* batch_inventory: product name -> its batches, each list sorted once by
\* descending available_stock.
BuildInventory(cat) ==
   [name \in {cat[i].product_name : i \in 1..Len(cat)} |-> SortBatches(BatchesOf(cat, name))]

\* sorted(set(names)) as a sequence.
SortedNames(S) ==
   The({[k \in 1..Cardinality(T) |->
           CHOOSE n1 \in T : Cardinality({n2 \in T : NameLess(n2, n1)}) = k - 1] :
          T \in {S}})

\* dict[key] = value on a dict kept as a sequence of entries in insertion order.
DictPut(dict, key, value) ==
   IF \E i \in 1..Len(dict) : dict[i].main = key
   THEN [i \in 1..Len(dict) |->
           IF dict[i].main = key THEN [main |-> key, variants |-> value] ELSE dict[i]]
   ELSE Append(dict, [main |-> key, variants |-> value])

\* One iteration of the loop over product_id_groups: a product_id with more
\* than one row and more than one distinct name adds an entry.
PutGroup(dict, cat, pid) ==
   The({IF Cardinality(group) > 1 /\ Len(unique_names) > 1
        THEN DictPut(dict, unique_names[1], SubSeq(unique_names, 2, Len(unique_names)))
        ELSE dict :
          group \in {{k \in 1..Len(cat) : str(cat[k].product_id) = pid}},
          unique_names \in {SortedNames({cat[k].product_name :
                                           k \in {k2 \in 1..Len(cat) :
                                                     str(cat[k2].product_id) = pid}})}})

RECURSIVE VariantsFrom(_, _, _, _)
VariantsFrom(cat, pids, i, dict) ==
   IF i > Len(pids) THEN dict
   ELSE The({VariantsFrom(cat, pids, i + 1, next) : next \in {PutGroup(dict, cat, pids[i])}})

\* product_variants: for every truthy product_id shared by several names, the
\* alphabetically first name -> the other names.
product_variants(cat) ==
   The({VariantsFrom(cat, pids, 1, <<>>) :
          pids \in {Distinct(SelectIdx([i \in 1..Len(cat) |-> str(cat[i].product_id)],
                                       {i \in 1..Len(cat) : str(cat[i].product_id) # ""}))}})

\* The variants of the first entry of product_variants that lists pname, with
\* the main product first and pname left out.
VariantsVia(entry, pname) ==
   <<entry.main>> \o
      SelectIdx(entry.variants, {k \in 1..Len(entry.variants) : entry.variants[k] # pname})

\* variants_to_check for pname: its own entry, else the first entry that lists
\* pname as a variant (main product first, then the other variants).
variants_to_check(pv, pname) ==
   IF \E i \in 1..Len(pv) : pv[i].main = pname
   THEN pv[CHOOSE i \in 1..Len(pv) : pv[i].main = pname].variants
   ELSE IF \E i \in 1..Len(pv) : pname \in Range(pv[i].variants)
        THEN VariantsVia(pv[CHOOSE i \in 1..Len(pv) :
                               /\ pname \in Range(pv[i].variants)
                               /\ \A j \in 1..(i - 1) : pname \notin Range(pv[j].variants)],
                         pname)
        ELSE <<>>

\* sum(b["available_stock"] for b in inventory[name])
StockOf(inventory, name) ==
   SumSeq([i \in 1..Len(inventory[name]) |-> inventory[name][i].available_stock])

RECURSIVE StripLeft(_)
StripLeft(s) == IF s # <<>> /\ Head(s) = " " THEN StripLeft(Tail(s)) ELSE s

RECURSIVE StripRight(_)
StripRight(s) ==
   IF s # <<>> /\ s[Len(s)] = " " THEN StripRight(SubSeq(s, 1, Len(s) - 1)) ELSE s

\* str.strip()
Strip(s) == StripRight(StripLeft(s))

\* The "related product" test between the matched product and another
\* catalog key: both names at least 10 characters and one contained in the
\* other, or a similarity ratio of at least 80.
is_potentially_related(pname, prod_key) ==
   \E pname_lower \in {Strip(Lower(Chars[pname]))},
      prod_lower \in {Strip(Lower(Chars[prod_key]))} :
      \/ /\ Len(pname_lower) >= RelatedMinLen
         /\ Len(prod_lower) >= RelatedMinLen
         /\ (IsSubstring(pname_lower, prod_lower) \/ IsSubstring(prod_lower, pname_lower))
      \/ fuzz_ratio(pname_lower, prod_lower) >= RelatedMinRatio

\* The related test between every two names of the model.
RelatedNames ==
   [pname \in Universe |-> [prod_key \in Universe |-> is_potentially_related(pname, prod_key)]]

(***************************************************************************)
(* Decision cache: three maps from a question's cache key to the answer.   *)
(***************************************************************************)
\* cache_key = f"{first}|{second}"
cache_key(first, second) == first \o "|" \o second

\* {} : a dict with no key
EmptyDict == [key \in {} |-> FALSE]

\* dict[key] = value
DictSet(dict, key, value) ==
   [k \in (DOMAIN dict) \cup {key} |-> IF k = key THEN value ELSE dict[k]]

EmptyCache == [partial_matches |-> EmptyDict, variants |-> EmptyDict, related |-> EmptyDict]

\* Fault: a candidate whose key the map lacks is accepted.
Accepted_AbsentTrue(decisions, pname, candidates) ==
   SelectIdx(candidates,
             {i \in 1..Len(candidates) :
                 \/ cache_key(pname, candidates[i]) \notin DOMAIN decisions
                 \/ decisions[cache_key(pname, candidates[i])]})

\* The candidates the decision map accepts: "if cache_key in cache: if
\* cache[cache_key]: products_to_use.append(candidate)".  A key that is not in
\* the map accepts nothing.
Accepted(decisions, pname, candidates) ==
   SelectIdx(candidates,
             {i \in 1..Len(candidates) :
                 /\ cache_key(pname, candidates[i]) \in DOMAIN decisions
                 /\ decisions[cache_key(pname, candidates[i])]})

\* The decision map after the loop over the candidates: "else:
\* cache[cache_key] = False" for every candidate whose key was not in the map.
WithDefaults(decisions, pname, candidates) ==
   [key \in (DOMAIN decisions) \cup {cache_key(pname, candidates[i]) : i \in 1..Len(candidates)} |->
      IF key \in DOMAIN decisions THEN decisions[key] ELSE FALSE]

(***************************************************************************)
(* Allocation Engine: one iteration of the batch allocation loop of        *)
(* process_hul_sales_interactive.                                          *)
(***************************************************************************)
\* "Filter variants with available stock"
variants_with_stock(inventory, to_check) ==
   SelectIdx(to_check,
             {i \in 1..Len(to_check) :
                 /\ to_check[i] \in DOMAIN inventory
                 /\ StockOf(inventory, to_check[i]) > 0})

\* sum of the available stock of all the batches of the given products
TotalStock(inventory, products) ==
   SumSeq([i \in 1..Len(products) |-> StockOf(inventory, products[i])])

\* The related products in stock: the inventory keys, in dict order, that are
\* not already used, are potentially related to pname and have stock.
related_products(inventory, keys, pname, products_to_use) ==
   SelectIdx(keys,
             {i \in 1..Len(keys) :
                 /\ \A k \in 1..Len(products_to_use) : products_to_use[k] # keys[i]
                 /\ RelatedNames[pname][keys[i]]
                 /\ StockOf(inventory, keys[i]) > 0})

\* Fault: only the batches of the first selected product are collected.
all_batches_OwnOnly(inventory, products, i) ==
   IF i > 1 THEN <<>>
   ELSE [k \in 1..Len(inventory[products[1]]) |-> [prod |-> products[1], pos |-> k]]

RECURSIVE all_batches(_, _, _)
\* "Collect all batches from selected products": references (product,
\* position in the product's list) to the batch objects, in that order.
all_batches(inventory, products, i) ==
   IF i > Len(products) THEN <<>>
   ELSE [k \in 1..Len(inventory[products[i]]) |-> [prod |-> products[i], pos |-> k]]
        \o all_batches(inventory, products, i + 1)

\* Fault: the pool is sorted by ascending available stock.
SortPool_Ascending(inventory, pool) ==
   The({[k \in 1..Len(stock) |->
           p[CHOOSE i \in 1..Len(stock) :
                Cardinality({j \in 1..Len(stock) :
                                \/ stock[j] < stock[i]
                                \/ (stock[j] = stock[i] /\ j < i)}) = k - 1]] :
          p \in {pool},
          stock \in {[i \in 1..Len(pool) |->
                        inventory[pool[i].prod][pool[i].pos].available_stock]}})

\* Fault: the pool is left in collection order.
SortPool_Unsorted(inventory, pool) == pool

\* sorted(all_batches, key=lambda x: -x["available_stock"])
SortPool(inventory, pool) ==
   The({[k \in 1..Len(stock) |->
           p[CHOOSE i \in 1..Len(stock) :
                Cardinality({j \in 1..Len(stock) :
                                \/ stock[j] > stock[i]
                                \/ (stock[j] = stock[i] /\ j < i)}) = k - 1]] :
          p \in {pool},
          stock \in {[i \in 1..Len(pool) |->
                        inventory[pool[i].prod][pool[i].pos].available_stock]}})

\* Fault: the allocation is recorded but the batch keeps its stock.
Take_NoDebit(batch, src, remaining_qty, inventory, batch_allocations, qty_from_batch) ==
   [inventory |-> inventory,
    remaining_qty |-> remaining_qty - qty_from_batch,
    batch_allocations |->
       Append(batch_allocations,
              [batch_id |-> batch.batch_id, product_id |-> batch.product_id,
               quantity |-> qty_from_batch, src |-> src.prod])]

\* One iteration of the greedy loop on a batch that has stock.
Take(batch, src, remaining_qty, inventory, batch_allocations, qty_from_batch) ==
   [inventory |-> [inventory EXCEPT ![src.prod][src.pos].available_stock = @ - qty_from_batch],
    remaining_qty |-> remaining_qty - qty_from_batch,
    batch_allocations |->
       Append(batch_allocations,
              [batch_id |-> batch.batch_id, product_id |-> batch.product_id,
               quantity |-> qty_from_batch, src |-> src.prod])]

RECURSIVE Drain(_, _, _)
\* "Allocate from multiple batches until order is fulfilled": the greedy loop
\* over the pool from position i.  st holds the ledger, the unfulfilled
\* remainder and the (batch, quantity) allocations; src of an allocation is
\* the inventory key of its batch.
Drain(pool, i, st) ==
   IF i > Len(pool) \/ st.remaining_qty <= 0 THEN st
   ELSE IF st.inventory[pool[i].prod][pool[i].pos].available_stock > 0
        THEN The({Drain(pool, i + 1, next) :
                    next \in {Take(st.inventory[pool[i].prod][pool[i].pos], pool[i],
                                   st.remaining_qty, st.inventory, st.batch_allocations,
                                   Min2(st.inventory[pool[i].prod][pool[i].pos].available_stock,
                                        st.remaining_qty))}})
        ELSE Drain(pool, i + 1, st)

ErrNotFound == "Product not found in reference"

ErrTooLow(score) ==
   "Product match score too low (" \o ToString(score)
      \o "%) - may be similar but different product"

ErrInsufficient(qty, fulfilled, pname) ==
   "Insufficient stock: need " \o ToString(qty) \o ", only " \o ToString(fulfilled)
      \o " available across all batches (matched to: '" \o pname \o "')"

ErrZero == "Zero quantity"

\* One allocated row: the order line's fields (base_row), the row's quantity,
\* batch and product ids and product_error.  line (the position of the order
\* line in the sorted frame) and src (the inventory key the batch belongs to)
\* are bookkeeping of the model, not columns of the code.
AllocRow(row, line, quantity, batch_id, product_id, product_error, src) ==
   [order_id |-> row.order_id,
    order_date |-> row.order_date,
    product_name |-> row.product_name,
    merchant_name |-> row.merchant_name,
    matched_product_name |-> row.matched_product_name,
    product_match_score |-> row.product_match_score,
    user_confirmed_match |-> row.user_confirmed_match,
    quantity |-> quantity,
    batch_id |-> batch_id,
    product_id |-> product_id,
    product_error |-> product_error,
    line |-> line,
    src |-> src]

\* Fault: the variants are considered whatever the stock of the product.
VariantCandidates_Always(inventory, pv, pname, qty) ==
   variants_with_stock(inventory, variants_to_check(pv, pname))

\* STEP 2 of a positive-quantity line: the variants the cache is asked about.
VariantCandidates(inventory, pv, pname, qty) ==
   IF StockOf(inventory, pname) < qty
   THEN variants_with_stock(inventory, variants_to_check(pv, pname))
   ELSE <<>>

\* STEP 3: the related products the cache is asked about, given the products
\* used so far.
RelatedCandidates(inventory, keys, pname, qty, products_to_use) ==
   IF TotalStock(inventory, products_to_use) < qty
   THEN related_products(inventory, keys, pname, products_to_use)
   ELSE <<>>

\* Fault: the batch allocations are emitted as success rows although a
\* remainder is left.
RowsOf_Partial(row, line, done) ==
   [i \in 1..Len(done.batch_allocations) |->
      AllocRow(row, line, done.batch_allocations[i].quantity,
               done.batch_allocations[i].batch_id,
               done.batch_allocations[i].product_id, "",
               done.batch_allocations[i].src)]

\* The rows of a positive-quantity line after the greedy loop: one row per
\* batch allocation on success, else one error row with the full quantity.
RowsOf(row, line, done) ==
   IF done.remaining_qty <= 0
   THEN [i \in 1..Len(done.batch_allocations) |->
           AllocRow(row, line, done.batch_allocations[i].quantity,
                    done.batch_allocations[i].batch_id,
                    done.batch_allocations[i].product_id, "",
                    done.batch_allocations[i].src)]
   ELSE <<AllocRow(row, line, row.quantity, "", "",
                   ErrInsufficient(row.quantity, row.quantity - done.remaining_qty,
                                   row.matched_product_name),
                   "")>>

\* The cache keys a line consulted.
Lookups(pname, variants, related) ==
   {[kind |-> "variants", key |-> cache_key(pname, variants[i])] : i \in 1..Len(variants)}
      \cup {[kind |-> "related", key |-> cache_key(pname, related[i])] : i \in 1..Len(related)}

\* Fault: a line that cannot be satisfied gives its stock back.
AllocateFrom_RollsBack(inventory, cache, row, line, variants, related, products_to_use) ==
   The({[inventory |-> IF done.remaining_qty <= 0 THEN done.inventory ELSE inventory,
         cache |-> [cache EXCEPT
                      !.variants = WithDefaults(@, row.matched_product_name, variants),
                      !.related = WithDefaults(@, row.matched_product_name, related)],
         lookups |-> Lookups(row.matched_product_name, variants, related),
         rows |-> RowsOf(row, line, done)] :
          done \in {The({Drain(pool, 1, [inventory |-> inventory,
                                         remaining_qty |-> row.quantity,
                                         batch_allocations |-> <<>>]) :
                           pool \in {SortPool(inventory,
                                              all_batches(inventory, products_to_use, 1))}})}})

\* STEP 4 for a line whose variant and related candidates and whose
\* products_to_use are known.
AllocateFrom(inventory, cache, row, line, variants, related, products_to_use) ==
   The({[inventory |-> done.inventory,
         cache |-> [cache EXCEPT
                      !.variants = WithDefaults(@, row.matched_product_name, variants),
                      !.related = WithDefaults(@, row.matched_product_name, related)],
         lookups |-> Lookups(row.matched_product_name, variants, related),
         rows |-> RowsOf(row, line, done)] :
          done \in {The({Drain(pool, 1, [inventory |-> inventory,
                                         remaining_qty |-> row.quantity,
                                         batch_allocations |-> <<>>]) :
                           pool \in {SortPool(inventory,
                                              all_batches(inventory, products_to_use, 1))}})}})

\* STEP 3 for a line whose variant candidates and products_to_use are known.
AllocateWithVariants(inventory, cache, keys, row, line, variants, products_to_use) ==
   The({The({AllocateFrom(inventory, cache, row, line, variants, related, use) :
               use \in {products_to_use
                          \o Accepted(cache.related, row.matched_product_name, related)}}) :
          related \in {RelatedCandidates(inventory, keys, row.matched_product_name,
                                         row.quantity, products_to_use)}})

\* The positive-quantity branch (STEP 2 - STEP 4) for one order line.
AllocatePositive(inventory, cache, pv, keys, row, line) ==
   The({The({AllocateWithVariants(inventory, cache, keys, row, line, variants, use) :
               use \in {<<row.matched_product_name>>
                          \o Accepted(cache.variants, row.matched_product_name, variants)}}) :
          variants \in {VariantCandidates(inventory, pv, row.matched_product_name,
                                          row.quantity)}})

\* Fault: the line is dropped without a row.
Unallocated_NoRow(inventory, cache, row, line, product_error) ==
   [inventory |-> inventory, cache |-> cache, lookups |-> {}, rows |-> <<>>]

\* A line that changes neither the ledger nor the cache.
Unallocated(inventory, cache, row, line, product_error) ==
   [inventory |-> inventory, cache |-> cache, lookups |-> {},
    rows |-> <<AllocRow(row, line, row.quantity, "", "", product_error, "")>>]

\* One iteration of the allocation loop for the order line row, the line-th of
\* the sorted frame: the ledger and the cache after it, the rows it appends to
\* allocated_rows and the cache keys it consulted.
AllocateRow(inventory, cache, pv, keys, row, line) ==
   IF row.matched_product_name = ""
   THEN Unallocated(inventory, cache, row, line,
                    IF row.product_match_score > 0
                    THEN ErrTooLow(row.product_match_score)
                    ELSE ErrNotFound)
   ELSE IF row.matched_product_name \notin DOMAIN inventory
   THEN Unallocated(inventory, cache, row, line, ErrNotFound)
   ELSE IF row.quantity < 0
   THEN \* Returns: credit the first batch of the product's list
        [inventory |->
            [inventory EXCEPT
               ![row.matched_product_name][1].available_stock = @ - row.quantity],
         cache |-> cache,
         lookups |-> {},
         rows |-> <<AllocRow(row, line, row.quantity,
                             inventory[row.matched_product_name][1].batch_id,
                             inventory[row.matched_product_name][1].product_id,
                             "", row.matched_product_name)>>]
   ELSE IF row.quantity > 0
   THEN AllocatePositive(inventory, cache, pv, keys, row, line)
   ELSE Unallocated(inventory, cache, row, line, ErrZero)

(***************************************************************************)
(* The sale-order frame: a sequence of order lines                         *)
(* [order_id, order_date, product_name, merchant_name, quantity].          *)
(***************************************************************************)
\* sale_order_df.sort_values(by="order_date").reset_index(drop=True): ascending
\* order of the "%d/%m/%Y" strings, equal dates in their input order.
sort_by_order_date(frame) ==
   The({[k \in 1..Len(f) |->
           f[CHOOSE i \in 1..Len(f) :
                Cardinality({j \in 1..Len(f) :
                                \/ NameLess(f[j].order_date, f[i].order_date)
                                \/ (~NameLess(f[i].order_date, f[j].order_date) /\ j < i)})
                   = k - 1]] :
          f \in {frame}})

(***************************************************************************)
(* Question Collector: collect_all_questions.                              *)
(***************************************************************************)
Question(first, second) ==
   [cache_key |-> cache_key(first, second), first |-> first, second |-> second]

\* Fault: the question is appended whether or not its key has been seen.
AddQuestion_NoDedup(list, first, second) == Append(list, Question(first, second))

\* questions[kind].append(...) unless the key has been seen
AddQuestion(list, first, second) ==
   IF \E i \in 1..Len(list) : list[i].cache_key = cache_key(first, second)
   THEN list
   ELSE Append(list, Question(first, second))

RECURSIVE AddQuestions(_, _, _, _)
AddQuestions(list, first, seconds, i) ==
   IF i > Len(seconds) THEN list
   ELSE The({AddQuestions(next, first, seconds, i + 1) :
               next \in {AddQuestion(list, first, seconds[i])}})

\* Fault: a match of score 100 raises a question too.
AddPartial_Inclusive(list, prod, hit) ==
   IF /\ hit.match # ""
      /\ PARTIAL_MATCH_MIN_SCORE <= hit.score
      /\ hit.score <= FullScore
   THEN AddQuestion(list, prod, hit.match)
   ELSE list

\* The partial-match question of one order product, if it raises one.
AddPartial(list, prod, hit) ==
   IF /\ hit.match # ""
      /\ PARTIAL_MATCH_MIN_SCORE <= hit.score
      /\ hit.score < FullScore
   THEN AddQuestion(list, prod, hit.match)
   ELSE list

RECURSIVE collect_partial(_, _, _, _)
\* "Collect partial match questions": one question per distinct
\* (order product, best match) whose score is in [70, 100).
collect_partial(frame, names, i, list) ==
   IF i > Len(frame) THEN list
   ELSE The({collect_partial(frame, names, i + 1, next) :
               next \in {The({AddPartial(list, frame[i].product_name, hit) :
                                hit \in {fuzzy_match_name(frame[i].product_name, names, 0)}})}})

RECURSIVE ConsumeOwn(_, _, _)
\* "Simulate stock consumption for this order": drains the batches of the
\* matched product only, in list order.
ConsumeOwn(batches, i, remaining_qty) ==
   IF i > Len(batches) \/ remaining_qty <= 0 THEN batches
   ELSE IF batches[i].available_stock > 0
        THEN The({ConsumeOwn(next, i + 1, left) :
                    next \in {[batches EXCEPT
                                 ![i].available_stock =
                                    @ - Min2(batches[i].available_stock, remaining_qty)]},
                    left \in {remaining_qty - Min2(batches[i].available_stock, remaining_qty)}})
        ELSE ConsumeOwn(batches, i + 1, remaining_qty)

\* The collector's variant candidates for a line: the variants in stock.
CollectorVariants(working, pv, pname) ==
   variants_with_stock(working, variants_to_check(pv, pname))

\* The collector's related candidates for a line: the inventory keys other
\* than pname and all its variants that are potentially related and in stock.
CollectorRelated(working, pv, keys, pname) ==
   The({SelectIdx(keys,
                  {i \in 1..Len(keys) :
                      /\ keys[i] # pname
                      /\ \A k \in 1..Len(to_check) : to_check[k] # keys[i]
                      /\ RelatedNames[pname][keys[i]]
                      /\ StockOf(working, keys[i]) > 0}) :
          to_check \in {variants_to_check(pv, pname)}})

\* total_stock of the collection phase: current stock plus all variant stock
CollectorTotal(working, pv, pname) ==
   The({StockOf(working, pname)
           + SumSeq([i \in 1..Len(to_check) |->
                       IF to_check[i] \in DOMAIN working
                       THEN StockOf(working, to_check[i])
                       ELSE 0]) :
          to_check \in {variants_to_check(pv, pname)}})

\* The questions after a positive-quantity line of product pname.
AskLine(questions, working, pv, keys, pname, qty) ==
   IF StockOf(working, pname) < qty
   THEN [questions EXCEPT
           !.variants = AddQuestions(@, pname, CollectorVariants(working, pv, pname), 1),
           !.related =
              IF CollectorTotal(working, pv, pname) < qty
              THEN AddQuestions(@, pname, CollectorRelated(working, pv, keys, pname), 1)
              ELSE @]
   ELSE questions

\* The working inventory after one line of the collection loop.
SimulateLine(working, pname, qty) ==
   IF qty < 0
   THEN [working EXCEPT ![pname][1].available_stock = @ - qty]
   ELSE IF qty > 0
   THEN [working EXCEPT ![pname] = ConsumeOwn(@, 1, qty)]
   ELSE working

RECURSIVE collect_stock_questions(_, _, _, _, _, _)
\* The loop over the sorted frame that collects the variant and related
\* questions while simulating stock consumption on the working copy.
collect_stock_questions(frame, i, working, pv, keys, questions) ==
   IF i > Len(frame) THEN questions
   ELSE IF \/ frame[i].matched_product_name = ""
           \/ frame[i].matched_product_name \notin DOMAIN working
   THEN collect_stock_questions(frame, i + 1, working, pv, keys, questions)
   ELSE The({collect_stock_questions(frame, i + 1, next_working, pv, keys, next_questions) :
               next_working \in {SimulateLine(working, frame[i].matched_product_name,
                                              frame[i].quantity)},
               next_questions \in {IF frame[i].quantity > 0
                                   THEN AskLine(questions, working, pv, keys,
                                                frame[i].matched_product_name,
                                                frame[i].quantity)
                                   ELSE questions}})

\* matched_products of the collector: the best match of every order line
CollectorMatched(frame, names) ==
   [i \in 1..Len(frame) |->
      [order_id |-> frame[i].order_id,
       order_date |-> frame[i].order_date,
       product_name |-> frame[i].product_name,
       merchant_name |-> frame[i].merchant_name,
       quantity |-> frame[i].quantity,
       matched_product_name |-> fuzzy_match_name(frame[i].product_name, names, 0).match]]

\* collect_all_questions(sales_files, reference_file): the three question lists.
collect_all_questions(frame, cat) ==
   The({collect_stock_questions(sorted, 1, working, pv, keys,
                                [partial_matches |-> partial,
                                 variants |-> <<>>,
                                 related |-> <<>>]) :
          partial \in {The({collect_partial(frame, names, 1, <<>>) :
                              names \in {product_names(cat)}})},
          sorted \in {The({sort_by_order_date(CollectorMatched(frame, names)) :
                             names \in {product_names(cat)}})},
          working \in {BuildInventory(cat)},
          pv \in {product_variants(cat)},
          keys \in {InventoryKeys(cat)}})

\* The collector's frame: the order lines with their best match, sorted by
\* order_date.
collector_frame(frame, cat) ==
   The({sort_by_order_date(CollectorMatched(frame, names)) :
          names \in {product_names(cat)}})

RECURSIVE working_batch_inventory(_, _, _)
\* The collector's working ledger after the first n lines of its sorted
\* frame: a line without a matched product of the ledger is skipped, the
\* others are simulated.
working_batch_inventory(frame, n, working) ==
   IF n = 0 THEN working
   ELSE The({IF \/ frame[n].matched_product_name = ""
                \/ frame[n].matched_product_name \notin DOMAIN before
             THEN before
             ELSE SimulateLine(before, frame[n].matched_product_name,
                               frame[n].quantity) :
               before \in {working_batch_inventory(frame, n - 1, working)}})

(***************************************************************************)
(* Output Assembler: merchant matching, categorisation and the grouping of *)
(* whole orders into the result tables.                                    *)
(* The merchant sheet is a sequence of rows [shop_name, merchant_name].    *)
(***************************************************************************)
\* Fault: merchant_name is tried before shop_name.
match_merchant_NameFirst(merchant, merchant_df) ==
   The({IF by_name.score = 100
        THEN [matched_shop_name |-> by_name.match, merchant_match_score |-> 100,
              merchant_find_status |-> "merchant_name"]
        ELSE IF by_shop.score = 100
        THEN [matched_shop_name |-> by_shop.match, merchant_match_score |-> 100,
              merchant_find_status |-> "shop_name"]
        ELSE [matched_shop_name |-> "", merchant_match_score |-> 0,
              merchant_find_status |-> "not_found"] :
          by_shop \in {exact_match_name(merchant,
                          [i \in 1..Len(merchant_df) |-> merchant_df[i].shop_name])},
          by_name \in {exact_match_name(merchant,
                          [i \in 1..Len(merchant_df) |-> merchant_df[i].merchant_name])}})

\* The merchant columns of one row: exact match on shop_name first, then on
\* merchant_name.
match_merchant(merchant, merchant_df) ==
   The({IF by_shop.score = 100
        THEN [matched_shop_name |-> by_shop.match, merchant_match_score |-> 100,
              merchant_find_status |-> "shop_name"]
        ELSE IF by_name.score = 100
        THEN [matched_shop_name |-> by_name.match, merchant_match_score |-> 100,
              merchant_find_status |-> "merchant_name"]
        ELSE [matched_shop_name |-> "", merchant_match_score |-> 0,
              merchant_find_status |-> "not_found"] :
          by_shop \in {exact_match_name(merchant,
                          [i \in 1..Len(merchant_df) |-> merchant_df[i].shop_name])},
          by_name \in {exact_match_name(merchant,
                          [i \in 1..Len(merchant_df) |-> merchant_df[i].merchant_name])}})

ErrMerchant == "Merchant not matched"

RECURSIVE JoinParts(_, _)
\* ", ".join(parts)
JoinParts(parts, i) ==
   IF i > Len(parts) THEN ""
   ELSE IF i = Len(parts) THEN parts[i]
   ELSE parts[i] \o ", " \o JoinParts(parts, i + 1)

\* ", ".join(filter(None, parts))
JoinNonEmpty(parts) ==
   The({JoinParts(kept, 1) :
          kept \in {SelectIdx(parts, {i \in 1..Len(parts) : parts[i] # ""})}})

\* '"not found" in str(product_error).lower()'.  Of the product errors the
\* engine writes for the names of the model, only ErrNotFound contains it.
contains_not_found(product_error) == product_error = ErrNotFound

\* Fault: the band excludes its lower end.
get_match_category_Strict(row) ==
   The({IF row.product_match_score = FullScore /\ clean THEN "valid"
        ELSE IF row.user_confirmed_match /\ band /\ clean THEN "valid"
        ELSE IF band /\ clean /\ ~row.user_confirmed_match THEN "partial"
        ELSE "error" :
          clean \in {/\ row.merchant_match_score = 100
                     /\ ~(contains_not_found(row.product_error) \/ row.merchant_error # "")
                     /\ ~(row.product_id = "" \/ row.batch_id = "")},
          band \in {/\ PARTIAL_MATCH_MIN_SCORE < row.product_match_score
                    /\ row.product_match_score < FullScore}})

\* get_match_category(row)
get_match_category(row) ==
   The({IF row.product_match_score = FullScore /\ clean THEN "valid"
        ELSE IF row.user_confirmed_match /\ band /\ clean THEN "valid"
        ELSE IF band /\ clean /\ ~row.user_confirmed_match THEN "partial"
        ELSE "error" :
          \* merchant 100, not has_critical_error, not is_incomplete
          clean \in {/\ row.merchant_match_score = 100
                     /\ ~(contains_not_found(row.product_error) \/ row.merchant_error # "")
                     /\ ~(row.product_id = "" \/ row.batch_id = "")},
          band \in {/\ PARTIAL_MATCH_MIN_SCORE <= row.product_match_score
                    /\ row.product_match_score < FullScore}})

ProductMatchPart(r) == "Product match " \o ToString(r.product_match_score) \o "%"

MerchantMatchPart(r) ==
   IF r.merchant_match_score < 100
   THEN "Merchant match " \o ToString(r.merchant_match_score) \o "%"
   ELSE ""

\* mk_err_msg(r)
mk_err_msg(r) ==
   JoinNonEmpty(<<r.product_error,
                  r.merchant_error,
                  IF r.product_match_score < FullScore /\ ~r.user_confirmed_match
                  THEN ProductMatchPart(r)
                  ELSE "",
                  MerchantMatchPart(r)>>)

\* mk_partial_msg(r)
mk_partial_msg(r) ==
   The({IF msg = "" THEN "Partial match" ELSE msg :
          msg \in {JoinNonEmpty(<<IF r.user_confirmed_match
                                  THEN "User confirmed match ("
                                          \o ToString(r.product_match_score) \o "%)"
                                  ELSE IF r.product_match_score < FullScore
                                  THEN ProductMatchPart(r)
                                  ELSE "",
                                  MerchantMatchPart(r),
                                  r.product_error>>)}})

\* An allocated row with the merchant columns and error_message.
\* partial_match_reason is the column of the partial table.
WithMerchant(r, m) ==
   [order_id |-> r.order_id,
    order_date |-> r.order_date,
    product_name |-> r.product_name,
    merchant_name |-> r.merchant_name,
    matched_product_name |-> r.matched_product_name,
    product_match_score |-> r.product_match_score,
    user_confirmed_match |-> r.user_confirmed_match,
    quantity |-> r.quantity,
    batch_id |-> r.batch_id,
    product_id |-> r.product_id,
    product_error |-> r.product_error,
    line |-> r.line,
    src |-> r.src,
    matched_shop_name |-> m.matched_shop_name,
    merchant_match_score |-> m.merchant_match_score,
    merchant_find_status |-> m.merchant_find_status,
    merchant_error |-> IF m.merchant_find_status = "not_found" THEN ErrMerchant ELSE "",
    error_message |->
       JoinNonEmpty(<<r.product_error,
                      IF m.merchant_find_status = "not_found" THEN ErrMerchant ELSE "">>),
    match_category |-> "",
    partial_match_reason |-> ""]

\* An allocated row with the merchant columns, error_message and
\* match_category.
FinishedRow(r, merchant_df) ==
   The({[base EXCEPT !.match_category = get_match_category(base)] :
          base \in {The({WithMerchant(r, m) :
                           m \in {match_merchant(r.merchant_name, merchant_df)}})}})

\* One row of the "Sales Return" table.
ReturnRow(r) ==
   [order_id |-> r.order_id,
    product_id |-> r.product_id,
    batch_id |-> r.batch_id,
    product_name |-> r.matched_product_name,
    return_qty |-> 0 - r.quantity,
    error_message |-> r.error_message,
    sales_return_date |-> r.order_date,
    line |-> r.line]

\* Fault: only the rows with an error_message mark their order.
error_order_ids_MessageOnly(df) ==
   {df[i].order_id : i \in {k \in 1..Len(df) : df[k].error_message # ""}}

\* The order ids of the rows that have an error_message or the category
\* "error".
error_order_ids(df) ==
   {df[i].order_id : i \in {k \in 1..Len(df) :
                               \/ df[k].error_message # ""
                               \/ df[k].match_category = "error"}}

\* The order ids of the rows of category "partial".
partial_order_ids(df) ==
   {df[i].order_id : i \in {k \in 1..Len(df) : df[k].match_category = "partial"}}

\* Fault: the frame is split row by row instead of order by order.
Grouped_ByRow(df, error_ids, partial_ids) ==
   The({[valid |-> valid_df,
         partial |-> [i \in 1..Len(partial_df) |->
                        [partial_df[i] EXCEPT
                           !.partial_match_reason = mk_partial_msg(partial_df[i])]],
         error |-> [i \in 1..Len(error_df) |->
                      [error_df[i] EXCEPT !.error_message = mk_err_msg(error_df[i])]]] :
          error_df \in {SelectIdx(df, {i \in 1..Len(df) :
                                          \/ df[i].error_message # ""
                                          \/ df[i].match_category = "error"})},
          partial_df \in {SelectIdx(df, {i \in 1..Len(df) :
                                            /\ df[i].error_message = ""
                                            /\ df[i].match_category = "partial"})},
          valid_df \in {SelectIdx(df, {i \in 1..Len(df) :
                                          /\ df[i].error_message = ""
                                          /\ df[i].match_category = "valid"})}})

\* The three tables of the non-return rows df: whole orders move together.
Grouped(df, error_ids, partial_ids) ==
   The({[valid |-> valid_df,
         partial |-> [i \in 1..Len(partial_df) |->
                        [partial_df[i] EXCEPT
                           !.partial_match_reason = mk_partial_msg(partial_df[i])]],
         error |-> [i \in 1..Len(error_df) |->
                      [error_df[i] EXCEPT !.error_message = mk_err_msg(error_df[i])]]] :
          error_df \in {SelectIdx(df, {i \in 1..Len(df) : df[i].order_id \in error_ids})},
          partial_df \in {SelectIdx(df, {i \in 1..Len(df) :
                                            /\ df[i].order_id \notin error_ids
                                            /\ df[i].order_id \in partial_ids})},
          valid_df \in {SelectIdx(df, {i \in 1..Len(df) :
                                          /\ df[i].order_id \notin error_ids
                                          /\ df[i].order_id \notin partial_ids})}})

(***************************************************************************)
(* sheet_splitter.py: the valid table is written as one sheet, or as       *)
(* several when it holds more than MAX_ORDERS_PER_SHEET orders.  A sheet   *)
(* is a record of its name, its rows and the two counts of sheet_info.     *)
(***************************************************************************)
MAX_ORDERS_PER_SHEET == 200

RECURSIVE SelectRange(_, _, _, _)
\* The elements seq[i], lo <= i <= hi, with keep[i], in order (a boolean mask
\* applied to a frame).
SelectRange(seq, keep, lo, hi) ==
   IF lo > hi THEN <<>>
   ELSE IF lo = hi THEN (IF keep[lo] THEN <<seq[lo]>> ELSE <<>>)
   ELSE The({SelectRange(seq, keep, lo, mid) \o SelectRange(seq, keep, mid + 1, hi) :
               mid \in {(lo + hi) \div 2}})

\* valid_df['order_id'].unique(): the order ids in order of first appearance.
unique_orders(valid_df) ==
   The({SelectRange(ids, [i \in 1..Len(ids) |-> \A j \in 1..(i - 1) : ids[j] # ids[i]],
                    1, Len(ids)) :
          ids \in {[i \in 1..Len(valid_df) |-> valid_df[i].order_id] \o <<>>}})

\* Fault: a sheet is closed one order early.
PackStep_Early(st, order_id) ==
   IF st.current_count + 1 >= MAX_ORDERS_PER_SHEET /\ Len(st.current_group) > 0
   THEN [order_groups |-> Append(st.order_groups, st.current_group),
         current_group |-> <<order_id>>,
         current_count |-> 1]
   ELSE [order_groups |-> st.order_groups,
         current_group |-> Append(st.current_group, order_id),
         current_count |-> st.current_count + 1]

\* One iteration of "for order_id in unique_orders".
PackStep(st, order_id) ==
   IF st.current_count + 1 > MAX_ORDERS_PER_SHEET /\ Len(st.current_group) > 0
   THEN [order_groups |-> Append(st.order_groups, st.current_group),
         current_group |-> <<order_id>>,
         current_count |-> 1]
   ELSE [order_groups |-> st.order_groups,
         current_group |-> Append(st.current_group, order_id),
         current_count |-> st.current_count + 1]

RECURSIVE PackRange(_, _, _, _)
\* The iterations of the loop for unique[lo..hi], in order, from the loop
\* state st (the range is halved to keep the evaluation shallow).
PackRange(unique, lo, hi, st) ==
   IF lo > hi THEN st
   ELSE IF lo = hi THEN PackStep(st, unique[lo])
   ELSE The({The({PackRange(unique, mid + 1, hi, half) :
                    half \in {PackRange(unique, lo, mid, st)}}) :
               mid \in {(lo + hi) \div 2}})

\* The order groups after the loop and "Add last group".
order_groups(unique) ==
   The({IF Len(done.current_group) > 0
        THEN Append(done.order_groups, done.current_group)
        ELSE done.order_groups :
          done \in {PackRange(unique, 1, Len(unique),
                               [order_groups |-> <<>>, current_group |-> <<>>,
                                current_count |-> 0])}})

\* valid_df[valid_df['order_id'].isin(order_list)] with its sheet_info.
Sheet(valid_df, order_list, sheet_name) ==
   The({[sheet_name |-> sheet_name,
         rows |-> sheet_df,
         order_count |-> Len(order_list),
         row_count |-> Len(sheet_df)] :
          sheet_df \in {The({SelectRange(valid_df,
                                         [i \in 1..Len(valid_df) |->
                                            valid_df[i].order_id \in listed],
                                         1, Len(valid_df)) :
                               listed \in {Range(order_list)}})}})

\* split_orders_into_sheets(valid_df)
split_orders_into_sheets(valid_df) ==
   IF Len(valid_df) = 0 THEN <<>>
   ELSE The({IF Len(unique) > MAX_ORDERS_PER_SHEET
             THEN The({[idx \in 1..Len(groups) |->
                          Sheet(valid_df, groups[idx],
                                "Sale Order Demo " \o ToString(idx))] \o <<>> :
                         groups \in {order_groups(unique)}})
             ELSE <<[sheet_name |-> "Sale Order Demo",
                     rows |-> valid_df,
                     order_count |-> Len(unique),
                     row_count |-> Len(valid_df)]>> :
               unique \in {unique_orders(valid_df)}})

\* Fault: the return rows take part in finding the orders with errors.
Tables_ErrorsFromAll(all) ==
   The({[valid |-> grouped.valid,
         valid_sheets |-> split_orders_into_sheets(grouped.valid),
         partial |-> grouped.partial,
         error |-> grouped.error,
         returns |-> [i \in 1..Len(negative_qty_df) |-> ReturnRow(negative_qty_df[i])]] :
          negative_qty_df \in {SelectIdx(all, {i \in 1..Len(all) : all[i].quantity < 0})},
          grouped \in {The({Grouped(df, error_order_ids(all), partial_order_ids(df)) :
                              df \in {SelectIdx(all, {i \in 1..Len(all) :
                                                         all[i].quantity >= 0})}})}})

\* Fault: the rows of quantity 0 are kept in neither part of the split.
Tables_DropsZero(all) ==
   The({[valid |-> grouped.valid,
         valid_sheets |-> split_orders_into_sheets(grouped.valid),
         partial |-> grouped.partial,
         error |-> grouped.error,
         returns |-> [i \in 1..Len(negative_qty_df) |-> ReturnRow(negative_qty_df[i])]] :
          negative_qty_df \in {SelectIdx(all, {i \in 1..Len(all) : all[i].quantity < 0})},
          grouped \in {The({Grouped(df, error_order_ids(df), partial_order_ids(df)) :
                              df \in {SelectIdx(all, {i \in 1..Len(all) :
                                                         all[i].quantity > 0})}})}})

\* The result tables from the finished rows: the negative quantities go to
\* the return table, the others are grouped by order; the valid table is
\* split into sheets.
Tables(all) ==
   The({[valid |-> grouped.valid,
         valid_sheets |-> split_orders_into_sheets(grouped.valid),
         partial |-> grouped.partial,
         error |-> grouped.error,
         returns |-> [i \in 1..Len(negative_qty_df) |-> ReturnRow(negative_qty_df[i])]] :
          negative_qty_df \in {SelectIdx(all, {i \in 1..Len(all) : all[i].quantity < 0})},
          grouped \in {The({Grouped(df, error_order_ids(df), partial_order_ids(df)) :
                              df \in {SelectIdx(all, {i \in 1..Len(all) :
                                                         all[i].quantity >= 0})}})}})

\* The four result tables from allocated_rows.
assemble(allocated_rows, merchant_df) ==
   The({Tables(all) :
          all \in {[i \in 1..Len(allocated_rows) |->
                      FinishedRow(allocated_rows[i], merchant_df)]}})

(***************************************************************************)
(* Product matching phase of the engine.                                   *)
(***************************************************************************)
\* Whether a match needs a user confirmation: a match with a score in
\* [70, 100).
InBand(hit) ==
   /\ hit.match # ""
   /\ PARTIAL_MATCH_MIN_SCORE <= hit.score
   /\ hit.score < FullScore

\* One iteration of the matching loop for the order product prod whose best
\* match is hit: the match, its score, the user_confirmed flag and the
\* partial_matches map after it.
match_product(prod, hit, partial_matches) ==
   [matched |-> [match |-> hit.match,
                 score |-> hit.score,
                 user_confirmed |->
                    IF InBand(hit)
                    THEN /\ cache_key(prod, hit.match) \in DOMAIN partial_matches
                         /\ partial_matches[cache_key(prod, hit.match)]
                    ELSE hit.score >= FullScore],
    partial_matches |->
       IF InBand(hit) /\ cache_key(prod, hit.match) \notin DOMAIN partial_matches
       THEN DictSet(partial_matches, cache_key(prod, hit.match), FALSE)
       ELSE partial_matches]

RECURSIVE match_products(_, _, _, _, _)
\* The matching loop from position i on: matched is the list of
\* [match, score, user_confirmed] so far (the three parallel lists).
match_products(frame, names, i, matched, partial_matches) ==
   IF i > Len(frame) THEN [matched |-> matched, partial_matches |-> partial_matches]
   ELSE The({match_products(frame, names, i + 1, Append(matched, one.matched),
                            one.partial_matches) :
               one \in {The({match_product(frame[i].product_name, hit, partial_matches) :
                               hit \in {fuzzy_match_name(frame[i].product_name, names, 0)}})}})

\* sale_order_df with the three matched columns set from the parallel lists.
with_matched(frame, matched) ==
   [i \in 1..Len(frame) |->
      [order_id |-> frame[i].order_id,
       order_date |-> frame[i].order_date,
       product_name |-> frame[i].product_name,
       merchant_name |-> frame[i].merchant_name,
       quantity |-> frame[i].quantity,
       matched_product_name |-> matched[i].match,
       product_match_score |-> matched[i].score,
       user_confirmed_match |-> matched[i].user_confirmed]]

(***************************************************************************)
(* Bounds and inputs of the model.                                         *)
(***************************************************************************)
MaxStock == 2

MaxQty == 3

MaxLines == 2

MaxRuns == 3

WP == "widget pro"

WPM == "widget pro max"

GZ == "gizmo"

\* Two order dates as the readers write them ("%d/%m/%Y"): 2 January 2024 and
\* 1 February 2024.
Jan02 == "02/01/2024"

Feb01 == "01/02/2024"

Row(name, pid, bid, stock) ==
   [product_name |-> name, product_id |-> pid, batch_id |-> bid, available_stock |-> stock]

Line(oid, date, name, merchant, qty) ==
   [order_id |-> oid, order_date |-> date, product_name |-> name,
    merchant_name |-> merchant, quantity |-> qty]

\* The "merchant_data" sheet of the reference file.
MerchantSheet ==
   <<[shop_name |-> "Shop One", merchant_name |-> "Asha"],
     [shop_name |-> "Oasis", merchant_name |-> "shop one"]>>

Files(frame, cat) == [orders |-> frame, catalog |-> cat, merchants |-> MerchantSheet]

\* Order frames of one to MaxLines lines: the first from First, the others
\* from Others.
Frames(First, Others) ==
   UNION {{<<f>> \o rest : f \in First, rest \in [1..(n - 1) -> Others]} : n \in 1..MaxLines}

\* Allocation inputs: a three-row catalog (a second batch of "widget pro" or a
\* variant "gizmo"; "widget pro max" as a variant or only a related product)
\* with every stock in 0..MaxStock, and orders of exactly named products with
\* sales up to MaxQty and returns.
AllocCatalogs ==
   {<<Row(WP, "X", "b1", s1), Row(n2, "X", "b2", s2), Row(WPM, p3, "b3", s3)>> :
       s1 \in 0..MaxStock, s2 \in 0..MaxStock, s3 \in 0..MaxStock,
       n2 \in {WP, GZ}, p3 \in {"X", "Y"}}

AllocLines ==
   {Line("O1", Jan02, WP, "Asha", q) : q \in (1..MaxQty) \cup {0 - 1}}

\* The variant scenario: A = "gizmo" (stock 5) and B = "widget pro" (stock 10)
\* share product_id X, and one order asks for 12 units of A.
ScenarioInputs ==
   {Files(<<Line("O1", Jan02, GZ, "Asha", 12)>>,
          <<Row(GZ, "X", "b1", 5), Row(WP, "X", "b2", 10)>>)}

\* The related-product scenario: "widget pro" (stock 20) and the related
\* "widget pro max" (another product_id, stock 40), and one order for 50 units
\* of "widget pro".
RelatedScenarioInputs ==
   {Files(<<Line("O1", Jan02, WP, "Asha", 50)>>,
          <<Row(WP, "X", "b1", 20), Row(WPM, "Y", "b3", 40)>>)}

\* Edge inputs: lines with a blank product name (a whitespace cell, "" after
\* strip) or the exact name, and a return, a zero quantity (the value of qty
\* for a missing quantity too) or a sale.
EdgeLines ==
   {Line("O1", Jan02, n, "Asha", q) : n \in {"", WP}, q \in {0 - 1, 0, 1}}

EdgeInputs ==
   {Files(frame, <<Row(WP, "X", "b1", MaxStock), Row(GZ, "X", "b2", 1)>>) :
       frame \in Frames(EdgeLines, EdgeLines)}

AllocInputs ==
   {Files(frame, cat) : frame \in Frames(AllocLines, AllocLines), cat \in AllocCatalogs}
      \cup ScenarioInputs \cup RelatedScenarioInputs \cup EdgeInputs

\* Matching inputs: order products that match "widget pro" with scores 100, 70
\* and 69, merchants that match a shop_name (and a merchant_name), only a
\* merchant_name or nothing, two order ids and two dates.
MatchNames == {"Pro  Widget", "widxxx pro", "widgeqqqqqqq pro", GZ}

MatchCatalog == <<Row(WP, "X", "b1", MaxStock), Row(GZ, "Y", "b2", 1)>>

MatchFirst ==
   {Line("O1", Jan02, n, m, q) :
       n \in MatchNames, m \in {"shop  one", "Nobody"}, q \in {1, MaxStock}}

MatchOthers ==
   {Line(o, d, n, m, q) :
       o \in {"O1", "O2"}, d \in {Jan02, Feb01}, n \in MatchNames,
       m \in {"shop  one", "Nobody", "Asha"}, q \in {1, MaxStock}}

MatchInputs ==
   {Files(frame, MatchCatalog) : frame \in Frames(MatchFirst, MatchOthers)}

\* Session inputs: single orders that raise a partial-match question or a
\* variant question.
SessionInputs ==
   {Files(<<Line("O1", Jan02, n, "Asha", q)>>,
          <<Row(WP, "X", "b1", MaxStock), Row(GZ, "X", "b2", 1)>>) :
       n \in {"widxxx pro", WP}, q \in {1, MaxQty}}

\* Variant inputs: four-row catalogs of one unit of stock per batch, whose
\* rows after the first take any of three names and a product_id cell that
\* holds X, holds Y or is empty, and one order of two units of a product.
VariantCatalogs ==
   {<<Row(WP, p1, "b1", 1), Row(n2, p2, "b2", 1), Row(n3, p3, "b3", 1),
      Row(n4, p4, "b4", 1)>> :
       p1 \in {"X", NaN}, p2 \in {"X", "Y", NaN}, p3 \in {"X", "Y", NaN},
       p4 \in {"X", "Y", NaN},
       n2 \in {WP, WPM, GZ}, n3 \in {WP, WPM, GZ}, n4 \in {WP, WPM, GZ}}

VariantInputs ==
   {Files(<<Line("O1", Jan02, n, "Asha", 2)>>, cat) :
       n \in {WP, WPM, GZ}, cat \in VariantCatalogs}

\* Sheet inputs: valid tables of n orders, n within SheetSlack of a multiple
\* (up to MaxPages) of the page size, with one row per order, two adjacent
\* rows per order, or two rows per order in two passes over the orders;
\* order ids ascending or descending.
MaxPages == 2

SheetSlack == 2

SheetCounts ==
   {n \in 0..(MaxPages * MAX_ORDERS_PER_SHEET + SheetSlack) :
       \E k \in 0..MaxPages :
          /\ n - k * MAX_ORDERS_PER_SHEET <= SheetSlack
          /\ k * MAX_ORDERS_PER_SHEET - n <= SheetSlack}

SheetFrame(n, layout, descending) ==
   [i \in 1..(IF layout = "single" THEN n ELSE 2 * n) |->
      [order_id |->
          The({IF descending THEN n + 1 - k ELSE k :
                 k \in {IF layout = "single" THEN i
                        ELSE IF layout = "grouped" THEN (i + 1) \div 2
                        ELSE IF i <= n THEN i ELSE i - n}}),
       row |-> i]] \o <<>>

SheetInputs ==
   {SheetFrame(n, layout, descending) :
       n \in SheetCounts, layout \in {"single", "grouped", "passes"},
       descending \in BOOLEAN}

(***************************************************************************)
(* State.                                                                  *)
(***************************************************************************)
VARIABLES
   uploaded,                 \* the files in the two file_uploader widgets (<<>> for
                             \* none, else <<files>>)
   temp_files,               \* st.session_state.temp_files: the files saved for the
                             \* collector and the engine (orders, catalog, merchants)
   all_questions_collected,  \* st.session_state.all_questions_collected
   all_questions,            \* st.session_state.all_questions (empty lists for None)
   processing_cache,         \* st.session_state.processing_cache
   processing_started,       \* st.session_state.processing_started
   processing_complete,      \* st.session_state.processing_complete
   processing_phase,         \* st.session_state.processing_phase ("" for no key)
   matched_products_data,    \* st.session_state.matched_products_data (<<>> for no key)
   pc,                       \* position of the engine: "idle" or "allocating"
                             \* ("splitting", "written" around the sheet split)
   sale_order_df,            \* the engine's sorted frame with the matched columns
   batch_inventory,          \* the engine's ledger
   idx,                      \* the next row of the allocation loop
   allocated_rows,           \* the engine's allocated_rows
   output_file,              \* the result tables of the last completed run
   cache_at_call,            \* the decision cache the engine was called with
   lookups,                  \* the variant and related keys the run looked up
   history,                  \* the completed runs: cache at the call and tables
   budget                    \* engine invocations left to explore

vars ==
   <<uploaded, temp_files, all_questions_collected, all_questions, processing_cache,
     processing_started, processing_complete, processing_phase,
     matched_products_data, pc, sale_order_df, batch_inventory, idx,
     allocated_rows, output_file, cache_at_call, lookups, history, budget>>

\* st.session_state.temp_files = {}: no file saved yet.
NoFiles == Files(<<>>, <<>>)

\* "Save temp file paths for processing": the uploaded files are saved, and
\* their paths kept in temp_files, only when temp_files holds no paths yet.
SavedFiles(saved, files) ==
   IF files # <<>> /\ saved = NoFiles THEN files[1] ELSE saved

NoQuestions == [partial_matches |-> <<>>, variants |-> <<>>, related |-> <<>>]

NoTables ==
   [valid |-> <<>>, valid_sheets |-> <<>>, partial |-> <<>>, error |-> <<>>,
    returns |-> <<>>]

Kinds == {"partial_matches", "variants", "related"}

\* The session state after the initialisation block of app.py.
FreshSession ==
   /\ all_questions_collected = FALSE
   /\ all_questions = NoQuestions
   /\ processing_cache = EmptyCache
   /\ processing_started = FALSE
   /\ processing_complete = FALSE
   /\ processing_phase = ""
   /\ matched_products_data = <<>>

EngineIdle ==
   /\ pc = "idle"
   /\ sale_order_df = <<>>
   /\ batch_inventory = EmptyDict
   /\ idx = 0
   /\ allocated_rows = <<>>
   /\ cache_at_call = EmptyCache
   /\ lookups = {}

InitWith(inputs, runs) ==
   /\ temp_files \in inputs
   /\ uploaded = <<temp_files>>
   /\ FreshSession
   /\ EngineIdle
   /\ output_file = NoTables
   /\ history = <<>>
   /\ budget = runs

Init == InitWith(AllocInputs, 1)

InitMatch == InitWith(MatchInputs, 1)

InitSession == InitWith(SessionInputs, MaxRuns)

InitVariants == InitWith(VariantInputs, 1)

(***************************************************************************)
(* Actions.                                                                *)
(***************************************************************************)
EngineVars ==
   <<pc, sale_order_df, batch_inventory, idx, allocated_rows, cache_at_call, lookups>>

\* A new browser session: the initialisation block of app.py gives every key
\* of st.session_state its initial value (temp_files = {}), and the script
\* saves the files that are in the uploaders.
NewSession ==
   /\ pc = "idle"
   /\ ~processing_started
   /\ all_questions_collected' = FALSE
   /\ all_questions' = NoQuestions
   /\ processing_cache' = EmptyCache
   /\ processing_started' = FALSE
   /\ processing_complete' = FALSE
   /\ processing_phase' = ""
   /\ matched_products_data' = <<>>
   /\ temp_files' = SavedFiles(NoFiles, uploaded)
   /\ UNCHANGED <<uploaded, output_file, history, budget>>
   /\ UNCHANGED EngineVars

\* The "Collect All Questions" button.
CollectAllQuestions ==
   /\ pc = "idle"
   /\ uploaded # <<>>
   /\ budget > 0
   /\ ~all_questions_collected
   /\ ~processing_started
   /\ all_questions' = collect_all_questions(temp_files.orders, temp_files.catalog)
   /\ all_questions_collected' = TRUE
   /\ processing_cache' = EmptyCache
   /\ UNCHANGED <<uploaded, temp_files, processing_started, processing_complete, processing_phase,
                  matched_products_data, output_file, history, budget>>
   /\ UNCHANGED EngineVars

\* Fault: the answer buttons are shown for the answered questions too.
Unanswered_All(kind) == 1..Len(all_questions[kind])

\* The questions of a kind that have no answer in the cache yet.
Unanswered(kind) ==
   {i \in 1..Len(all_questions[kind]) :
       all_questions[kind][i].cache_key \notin DOMAIN processing_cache[kind]}

\* One of the two buttons of an unanswered question.
Answer ==
   /\ pc = "idle"
   /\ all_questions_collected
   /\ ~processing_started
   /\ \E kind \in Kinds, value \in BOOLEAN :
         \E i \in Unanswered(kind) :
            processing_cache' =
               [processing_cache EXCEPT
                  ![kind] = DictSet(@, all_questions[kind][i].cache_key, value)]
   /\ UNCHANGED <<uploaded, temp_files, all_questions_collected, all_questions, processing_started,
                  processing_complete, processing_phase, matched_products_data,
                  output_file, history, budget>>
   /\ UNCHANGED EngineVars

\* Fault: only the partial-match questions are checked for an answer.
all_answered_PartialOnly == Unanswered("partial_matches") = {}

\* The all_answered flag computed after the question lists: every question
\* of every kind has its cache_key in the cache of its kind.
all_answered == \A kind \in Kinds : Unanswered(kind) = {}

\* The "Process with Answers" button.
ProcessWithAnswers ==
   /\ pc = "idle"
   /\ all_questions_collected
   /\ ~processing_started
   /\ all_answered
   /\ processing_started' = TRUE
   /\ UNCHANGED <<uploaded, temp_files, all_questions_collected, all_questions, processing_cache,
                  processing_complete, processing_phase, matched_products_data,
                  output_file, history, budget>>
   /\ UNCHANGED EngineVars

\* The product matching of process_hul_sales_interactive: skipped when the
\* session says the phase is complete and holds matched data, else resumed
\* after the matched lists the session holds (none for a missing key).
MatchingPhase(frame, cat, phase, restored, partial_matches) ==
   IF phase = "batch_allocation" /\ Len(restored) > 0
   THEN [matched |-> restored, partial_matches |-> partial_matches]
   ELSE The({match_products(frame, names, Len(restored) + 1, restored, partial_matches) :
               names \in {product_names(cat)}})

\* Fault: the ledger of the previous invocation is used again.
EngineStart_KeepsLedger ==
   /\ pc = "idle"
   /\ processing_started
   /\ all_questions_collected
   /\ \E done \in {MatchingPhase(temp_files.orders, temp_files.catalog,
                                   processing_phase, matched_products_data,
                                   processing_cache.partial_matches)} :
         /\ matched_products_data' = done.matched
         /\ processing_cache' =
               [processing_cache EXCEPT !.partial_matches = done.partial_matches]
         /\ sale_order_df' =
               sort_by_order_date(with_matched(temp_files.orders, done.matched))
   /\ processing_phase' = "batch_allocation"
   /\ batch_inventory' = IF batch_inventory = EmptyDict
                         THEN BuildInventory(temp_files.catalog)
                         ELSE batch_inventory
   /\ allocated_rows' = <<>>
   /\ idx' = 1
   /\ pc' = "allocating"
   /\ cache_at_call' = processing_cache
   /\ lookups' = {}
   /\ UNCHANGED <<uploaded, temp_files, all_questions_collected, all_questions, processing_started,
                  processing_complete, output_file, history, budget>>

\* process_hul_sales_interactive up to the allocation loop: product matching
\* (skipped or resumed when the session holds matched_products_data), ledger
\* construction and the sort of the frame.
EngineStart ==
   /\ pc = "idle"
   /\ processing_started
   /\ all_questions_collected
   /\ \E done \in {MatchingPhase(temp_files.orders, temp_files.catalog,
                                   processing_phase, matched_products_data,
                                   processing_cache.partial_matches)} :
         /\ matched_products_data' = done.matched
         /\ processing_cache' =
               [processing_cache EXCEPT !.partial_matches = done.partial_matches]
         /\ sale_order_df' =
               sort_by_order_date(with_matched(temp_files.orders, done.matched))
   /\ processing_phase' = "batch_allocation"
   /\ batch_inventory' = BuildInventory(temp_files.catalog)
   /\ allocated_rows' = <<>>
   /\ idx' = 1
   /\ pc' = "allocating"
   /\ cache_at_call' = processing_cache
   /\ lookups' = {}
   /\ UNCHANGED <<uploaded, temp_files, all_questions_collected, all_questions, processing_started,
                  processing_complete, output_file, history, budget>>

\* AllocateRow with the product_variants map and the inventory keys of the
\* catalog.
LineStep(inventory, cache, cat, row, line) ==
   The({AllocateRow(inventory, cache, pv, keys, row, line) :
          pv \in {product_variants(cat)}, keys \in {InventoryKeys(cat)}})

\* One iteration of the batch allocation loop.
AllocateLine ==
   /\ pc = "allocating"
   /\ idx <= Len(sale_order_df)
   /\ \E step \in {LineStep(batch_inventory, processing_cache, temp_files.catalog,
                              sale_order_df[idx], idx)} :
         /\ batch_inventory' = step.inventory
         /\ processing_cache' = step.cache
         /\ allocated_rows' = allocated_rows \o step.rows
         /\ lookups' = lookups \cup step.lookups
   /\ idx' = idx + 1
   /\ UNCHANGED <<uploaded, temp_files, all_questions_collected, all_questions, processing_started,
                  processing_complete, processing_phase, matched_products_data, pc,
                  sale_order_df, output_file, cache_at_call, history, budget>>

\* The rest of process_hul_sales_interactive (merchant matching,
\* categorisation, result tables) and the success branch of the app.
FinishRun ==
   /\ pc = "allocating"
   /\ idx > Len(sale_order_df)
   /\ \E tables \in {assemble(allocated_rows, temp_files.merchants)} :
         /\ output_file' = tables
         /\ history' = Append(history, [cache |-> cache_at_call, tables |-> tables])
   /\ budget' = budget - 1
   /\ processing_complete' = TRUE
   /\ processing_started' = FALSE
   /\ all_questions_collected' = FALSE
   /\ all_questions' = NoQuestions
   /\ pc' = "idle"
   /\ UNCHANGED <<uploaded, temp_files, processing_cache, processing_phase, matched_products_data,
                  sale_order_df, batch_inventory, idx, allocated_rows, cache_at_call,
                  lookups>>

Next ==
   \/ NewSession
   \/ CollectAllQuestions
   \/ Answer
   \/ ProcessWithAnswers
   \/ EngineStart
   \/ AllocateLine
   \/ FinishRun

Spec == Init /\ [][Next]_vars

SpecMatch == InitMatch /\ [][Next]_vars

SpecSession == InitSession /\ [][Next]_vars

SpecVariants == InitVariants /\ [][Next]_vars

\* The user puts files into the uploaders (the first files, or other files
\* in place of the ones there) and the script reruns up to the buttons: it
\* previews the uploaded files and saves them if temp_files holds no paths.
Upload ==
   /\ pc = "idle"
   /\ ~processing_started
   /\ \E files \in SessionInputs :
         /\ uploaded # <<files>>
         /\ uploaded' = <<files>>
         /\ temp_files' = SavedFiles(temp_files, <<files>>)
   /\ UNCHANGED <<all_questions_collected, all_questions, processing_cache,
                  processing_started, processing_complete, processing_phase,
                  matched_products_data, output_file, history, budget>>
   /\ UNCHANGED EngineVars

\* A session that starts with empty uploaders.
InitUpload ==
   /\ uploaded = <<>>
   /\ temp_files = NoFiles
   /\ FreshSession
   /\ EngineIdle
   /\ output_file = NoTables
   /\ history = <<>>
   /\ budget = MaxRuns

NextUpload ==
   \/ Upload
   \/ NewSession
   \/ CollectAllQuestions
   \/ Answer
   \/ ProcessWithAnswers
   \/ EngineStart
   \/ AllocateLine
   \/ FinishRun

SpecUpload == InitUpload /\ [][NextUpload]_vars

\* The engine about to split a valid table into sheets.
InitSheets ==
   /\ temp_files = NoFiles
   /\ uploaded = <<>>
   /\ FreshSession
   /\ pc = "splitting"
   /\ sale_order_df = <<>>
   /\ batch_inventory = EmptyDict
   /\ idx = 0
   /\ allocated_rows = <<>>
   /\ cache_at_call = EmptyCache
   /\ lookups = {}
   /\ \E valid_df \in SheetInputs : output_file = [NoTables EXCEPT !.valid = valid_df]
   /\ history = <<>>
   /\ budget = 1

\* valid_sheets, sheet_info = split_orders_into_sheets(valid_df)
WriteValidSheets ==
   /\ pc = "splitting"
   /\ output_file' =
         [output_file EXCEPT !.valid_sheets = split_orders_into_sheets(output_file.valid)]
   /\ pc' = "written"
   /\ UNCHANGED <<uploaded, temp_files, all_questions_collected, all_questions, processing_cache,
                  processing_started, processing_complete, processing_phase,
                  matched_products_data, sale_order_df, batch_inventory, idx,
                  allocated_rows, cache_at_call, lookups, history, budget>>

NextSheets == WriteValidSheets

SpecSheets == InitSheets /\ [][NextSheets]_vars

(***************************************************************************)
(* britannia_processor.py and unicharm_processor.py:                       *)
(* process_britannia_sales and process_unicharm_sales.  From the product   *)
(* matching on, the two functions are the same code line for line          *)
(* (britannia 217-489, unicharm 149-411); one model stands for both.  They *)
(* ask no question and take no decision cache.                             *)
(***************************************************************************)
\* The product matching loop: the best match of min_score 0 for every order
\* product, user_confirmed only for a score of 100.
britannia_match_products(frame, names) ==
   [i \in 1..Len(frame) |->
      The({[match |-> hit.match, score |-> hit.score,
            user_confirmed |-> hit.score >= FullScore] :
             hit \in {fuzzy_match_name(frame[i].product_name, names, 0)}})]

ErrInsufficientBrand(qty, fulfilled) ==
   "Insufficient stock: need " \o ToString(qty) \o ", only " \o ToString(fulfilled)
      \o " available"

\* "for batch in batch_inventory[pname]": the batches of the matched product
\* in the order of its list, which is sorted once when the ledger is built.
britannia_pool(inventory, pname) == all_batches(inventory, <<pname>>, 1)

\* One iteration of the allocation loop of process_britannia_sales /
\* process_unicharm_sales: the ledger after it and the rows it appends.
britannia_allocate_row(inventory, row, line) ==
   IF row.matched_product_name = "" \/ row.matched_product_name \notin DOMAIN inventory
   THEN [inventory |-> inventory,
         rows |-> <<AllocRow(row, line, row.quantity, "", "", ErrNotFound, "")>>]
   ELSE IF row.quantity < 0
   THEN [inventory |->
            [inventory EXCEPT
               ![row.matched_product_name][1].available_stock = @ - row.quantity],
         rows |-> <<AllocRow(row, line, row.quantity,
                             inventory[row.matched_product_name][1].batch_id,
                             inventory[row.matched_product_name][1].product_id,
                             "", row.matched_product_name)>>]
   ELSE IF row.quantity > 0
   THEN The({[inventory |-> done.inventory,
              rows |->
                 IF done.remaining_qty <= 0
                 THEN [i \in 1..Len(done.batch_allocations) |->
                         AllocRow(row, line, done.batch_allocations[i].quantity,
                                  done.batch_allocations[i].batch_id,
                                  done.batch_allocations[i].product_id, "",
                                  done.batch_allocations[i].src)]
                 ELSE <<AllocRow(row, line, row.quantity, "", "",
                                 ErrInsufficientBrand(row.quantity,
                                                      row.quantity - done.remaining_qty),
                                 "")>>] :
               done \in {Drain(britannia_pool(inventory, row.matched_product_name), 1,
                               [inventory |-> inventory,
                                remaining_qty |-> row.quantity,
                                batch_allocations |-> <<>>])}})
   ELSE [inventory |-> inventory,
         rows |-> <<AllocRow(row, line, row.quantity, "", "", ErrZero, "")>>]

\* get_match_category(row) of process_britannia_sales / process_unicharm_sales
britannia_get_match_category(row) ==
   The({IF (row.product_match_score = FullScore \/ row.user_confirmed_match) /\ clean
        THEN "valid"
        ELSE IF /\ PARTIAL_MATCH_MIN_SCORE <= row.product_match_score
                /\ row.product_match_score < FullScore
                /\ clean
                /\ ~row.user_confirmed_match
        THEN "partial"
        ELSE "error" :
          \* merchant 100 and not has_critical_error
          clean \in {/\ row.merchant_match_score = 100
                     /\ ~(contains_not_found(row.product_error) \/ row.merchant_error # "")}})

\* rows_with_errors["order_id"].unique(): the order ids of the rows that have
\* an error_message.
britannia_error_order_ids(df) ==
   {df[i].order_id : i \in {k \in 1..Len(df) : df[k].error_message # ""}}

\* The result tables of process_britannia_sales / process_unicharm_sales from
\* allocated_rows: merchant matching, error_message, the split of the
\* negative quantities, match_category and the three frames of whole orders.
britannia_tables(rows, merchant_df) ==
   The({The({[valid |-> grouped.valid,
              valid_sheets |-> <<>>,
              partial |-> grouped.partial,
              error |-> grouped.error,
              returns |-> [i \in 1..Len(negative_qty_df) |->
                             ReturnRow(negative_qty_df[i])]] :
               negative_qty_df \in {SelectIdx(all, {i \in 1..Len(all) :
                                                       all[i].quantity < 0})},
               grouped \in {The({Grouped(df, britannia_error_order_ids(df),
                                         partial_order_ids(df)) :
                                   df \in {SelectIdx(all, {i \in 1..Len(all) :
                                                              all[i].quantity >= 0})}})}}) :
          all \in {[i \in 1..Len(rows) |->
                      The({[base EXCEPT
                              !.match_category = britannia_get_match_category(base)] :
                             base \in {The({WithMerchant(rows[i], m) :
                                              m \in {match_merchant(rows[i].merchant_name,
                                                                    merchant_df)}})}})]}})

\* Inputs of the two processors: "widget pro" in two batches with every stock
\* in 0..MaxStock, order products that match it with scores 100, 70 and 69,
\* a merchant that matches or not, sales and a return, in one or two orders.
BrandCatalogs ==
   {<<Row(WP, "X", "b1", s1), Row(WP, "X", "b2", s2), Row(GZ, "Y", "b3", 1)>> :
       s1 \in 0..MaxStock, s2 \in 0..MaxStock}

BrandLines(ids) ==
   {Line(o, Jan02, n, m, q) :
       o \in ids, n \in {WP, "widxxx pro", "widgeqqqqqqq pro"},
       m \in {"Asha", "Nobody"}, q \in {0 - 1, 1, MaxStock}}

BrandInputs ==
   {Files(frame, cat) :
       frame \in Frames(BrandLines({"O1"}), BrandLines({"O1", "O2"})),
       cat \in BrandCatalogs}

\* process_britannia_sales / process_unicharm_sales called on the files.
InitBrand ==
   /\ temp_files \in BrandInputs
   /\ uploaded = <<temp_files>>
   /\ FreshSession
   /\ pc = "brand_loaded"
   /\ sale_order_df = <<>>
   /\ batch_inventory = EmptyDict
   /\ idx = 0
   /\ allocated_rows = <<>>
   /\ cache_at_call = EmptyCache
   /\ lookups = {}
   /\ output_file = NoTables
   /\ history = <<>>
   /\ budget = 1

\* The processor up to the allocation loop: product matching, ledger
\* construction (each product's batches sorted once by descending stock) and
\* the sort of the frame by order_date.
BrandStart ==
   /\ pc = "brand_loaded"
   /\ sale_order_df' =
         sort_by_order_date(
            with_matched(temp_files.orders,
                         britannia_match_products(temp_files.orders,
                                                  product_names(temp_files.catalog))))
   /\ batch_inventory' = BuildInventory(temp_files.catalog)
   /\ allocated_rows' = <<>>
   /\ idx' = 1
   /\ pc' = "brand_allocating"
   /\ UNCHANGED <<uploaded, temp_files, all_questions_collected, all_questions, processing_cache,
                  processing_started, processing_complete, processing_phase,
                  matched_products_data, output_file, cache_at_call, lookups, history,
                  budget>>

\* One iteration of the allocation loop.
BrandAllocateLine ==
   /\ pc = "brand_allocating"
   /\ idx <= Len(sale_order_df)
   /\ \E step \in {britannia_allocate_row(batch_inventory, sale_order_df[idx], idx)} :
         /\ batch_inventory' = step.inventory
         /\ allocated_rows' = allocated_rows \o step.rows
   /\ idx' = idx + 1
   /\ UNCHANGED <<uploaded, temp_files, all_questions_collected, all_questions, processing_cache,
                  processing_started, processing_complete, processing_phase,
                  matched_products_data, pc, sale_order_df, output_file, cache_at_call,
                  lookups, history, budget>>

\* The rest of the processor: merchant matching, categorisation and the
\* result tables.
BrandFinish ==
   /\ pc = "brand_allocating"
   /\ idx > Len(sale_order_df)
   /\ output_file' = britannia_tables(allocated_rows, temp_files.merchants)
   /\ pc' = "brand_done"
   /\ UNCHANGED <<uploaded, temp_files, all_questions_collected, all_questions, processing_cache,
                  processing_started, processing_complete, processing_phase,
                  matched_products_data, sale_order_df, batch_inventory, idx,
                  allocated_rows, cache_at_call, lookups, history, budget>>

NextBrand ==
   \/ BrandStart
   \/ BrandAllocateLine
   \/ BrandFinish

SpecBrand == InitBrand /\ [][NextBrand]_vars


(***************************************************************************)
(* Properties.                                                             *)
(***************************************************************************)
\* The rows of allocated_rows that the line-th order line emitted.
LineRows(line) ==
   SelectIdx(allocated_rows,
             {i \in 1..Len(allocated_rows) : allocated_rows[i].line = line})

\* The lines of the sorted frame that the allocation loop has processed.
Processed == {k \in 1..Len(sale_order_df) : k < idx}

Quantities(rows) == [i \in 1..Len(rows) |-> rows[i].quantity]

\* C1: every processed order line with quantity > 0 either has only success
\* rows (a batch, a product id, no product error) whose quantities sum exactly
\* to the line's quantity, or has exactly one row, an error row with the full
\* quantity and empty batch_id and product_id.
C1_FullOrError ==
   \A k \in Processed :
      sale_order_df[k].quantity > 0 =>
         \E rows \in {LineRows(k)} :
            \/ /\ \A i \in 1..Len(rows) :
                     /\ rows[i].product_error = ""
                     /\ rows[i].batch_id # ""
                     /\ rows[i].product_id # ""
               /\ SumSeq(Quantities(rows)) = sale_order_df[k].quantity
            \/ /\ Len(rows) = 1
               /\ rows[1].product_error # ""
               /\ rows[1].quantity = sale_order_df[k].quantity
               /\ rows[1].batch_id = ""
               /\ rows[1].product_id = ""

\* A line of quantity > 0 was allocated from two batches, and another line was
\* rejected with one error row.
C1_Witness ==
   /\ \E k \in Processed :
         /\ sale_order_df[k].quantity > 0
         /\ Len(LineRows(k)) = 2
   /\ \E k \in Processed :
         /\ sale_order_df[k].quantity > 0
         /\ \E i \in 1..Len(allocated_rows) :
               allocated_rows[i].line = k /\ allocated_rows[i].product_error # ""

\* The cache maps the key to true in its variants or in its related map.
CachedTrue(cache, key) ==
   \/ key \in DOMAIN cache.variants /\ cache.variants[key]
   \/ key \in DOMAIN cache.related /\ cache.related[key]

\* The cache with an explicit false for every looked-up key it does not hold.
ExplicitFalse(cache, looked) ==
   [cache EXCEPT
      !.variants =
         [key \in (DOMAIN @) \cup {l.key : l \in {l2 \in looked : l2.kind = "variants"}} |->
            IF key \in DOMAIN @ THEN @[key] ELSE FALSE],
      !.related =
         [key \in (DOMAIN @) \cup {l.key : l \in {l2 \in looked : l2.kind = "related"}} |->
            IF key \in DOMAIN @ THEN @[key] ELSE FALSE]]

\* C2: an allocated row of a line matched to M draws from a batch of another
\* product P only if the cache the engine was called with maps "M|P" to true;
\* and the next iteration of the loop gives the same rows, ledger and cache as
\* it gives when every key it looks up and the cache lacks is an explicit
\* false.
C2_NoSilentAccept ==
   /\ \A i \in 1..Len(allocated_rows) :
         (/\ allocated_rows[i].src # ""
          /\ allocated_rows[i].src # allocated_rows[i].matched_product_name)
            => CachedTrue(cache_at_call,
                          cache_key(allocated_rows[i].matched_product_name,
                                    allocated_rows[i].src))
   /\ (pc = "allocating" /\ idx <= Len(sale_order_df)) =>
         \E step \in {LineStep(batch_inventory, processing_cache, temp_files.catalog,
                               sale_order_df[idx], idx)} :
            \E same \in {LineStep(batch_inventory,
                                  ExplicitFalse(processing_cache, step.lookups),
                                  temp_files.catalog, sale_order_df[idx], idx)} :
               /\ same.rows = step.rows
               /\ same.inventory = step.inventory
               /\ same.cache = step.cache

\* A row draws from a batch of another product, and the run looked up a key
\* that the cache it was called with does not hold.
C2_Witness ==
   /\ \E i \in 1..Len(allocated_rows) :
         /\ allocated_rows[i].src # ""
         /\ allocated_rows[i].src # allocated_rows[i].matched_product_name
   /\ \E l \in lookups : l.key \notin DOMAIN cache_at_call[l.kind]

\* The order ids of a table.
Ids(table) == {table[i].order_id : i \in 1..Len(table)}

\* A row with an error: a product or merchant error or the category "error".
HasError(r) == r.product_error # "" \/ r.merchant_error # "" \/ r.match_category = "error"

\* C3: the valid, partial and error tables of a completed run share no
\* order_id and hold every non-return row; no row with an error is in the
\* valid or partial table and none of its order's rows is either; no partial
\* row is in the valid table and none of its order's rows is either.
C3_WholeOrders ==
   \E valid \in {output_file.valid}, partial \in {output_file.partial},
      error \in {output_file.error} :
      /\ Ids(valid) \cap Ids(partial) = {}
      /\ Ids(valid) \cap Ids(error) = {}
      /\ Ids(partial) \cap Ids(error) = {}
      /\ processing_complete =>
            Len(valid) + Len(partial) + Len(error)
               = Cardinality({i \in 1..Len(allocated_rows) : allocated_rows[i].quantity >= 0})
      /\ \A i \in 1..Len(valid) : ~HasError(valid[i]) /\ valid[i].match_category = "valid"
      /\ \A i \in 1..Len(partial) : ~HasError(partial[i])
      /\ \A o \in Ids(partial) :
            \E i \in 1..Len(partial) :
               partial[i].order_id = o /\ partial[i].match_category = "partial"
      /\ \A o \in Ids(error) :
            \E i \in 1..Len(error) : error[i].order_id = o /\ HasError(error[i])

\* The error table holds two rows of one order, one with an error and one
\* that by itself is valid.
C3_Witness ==
   \E i, j \in 1..Len(output_file.error) :
      /\ output_file.error[i].order_id = output_file.error[j].order_id
      /\ output_file.error[i].match_category = "error"
      /\ output_file.error[j].match_category = "valid"
      /\ output_file.error[j].product_error = ""

\* The cache keys of the questions that collect_all_questions emitted.
EmittedKeys ==
   UNION {{all_questions[kind][i].cache_key : i \in 1..Len(all_questions[kind])} :
            kind \in Kinds}

\* C4: while the engine allocates with a cache that holds exactly the answers
\* to the emitted questions, every variant or related cache key it has looked
\* up is one of the emitted keys.
C4_QuestionsComplete ==
   pc = "allocating" => \A l \in lookups : l.key \in EmittedKeys

\* C5: any two completed runs on the same orders and catalog that were called
\* with an identical decision cache produced identical result tables.
C5_Idempotent ==
   \A i, j \in 1..Len(history) :
      history[i].cache = history[j].cache => history[i].tables = history[j].tables

\* C6: the matched products, scores and user-confirmed flags the engine
\* allocates with are those that the matching loop derives from the orders,
\* the catalog and the decision cache of this invocation.
C6_OwnInputs ==
   pc = "allocating" =>
      matched_products_data =
         MatchingPhase(temp_files.orders, temp_files.catalog, "", <<>>,
                       cache_at_call.partial_matches).matched

\* C7: every batch of the ledger has available_stock >= 0.
C7_StockNonNegative ==
   \A name \in DOMAIN batch_inventory :
      \A i \in 1..Len(batch_inventory[name]) :
         batch_inventory[name][i].available_stock >= 0

\* A failed allocation has drained a batch that had stock, and a return has
\* credited one.
C7_Witness ==
   /\ pc = "allocating"
   /\ \E i \in 1..Len(allocated_rows) :
         allocated_rows[i].quantity > 0 /\ allocated_rows[i].product_error # ""
   /\ \E i \in 1..Len(allocated_rows) : allocated_rows[i].quantity < 0
   /\ \E k \in 1..Len(temp_files.catalog) :
         /\ temp_files.catalog[k].available_stock > 0
         /\ \E i \in 1..Len(batch_inventory[temp_files.catalog[k].product_name]) :
               /\ batch_inventory[temp_files.catalog[k].product_name][i].batch_id
                     = temp_files.catalog[k].batch_id
               /\ batch_inventory[temp_files.catalog[k].product_name][i].available_stock = 0

\* C8: when the next line of the loop is a return (quantity < 0) of a matched
\* product, the iteration emits exactly one row and adds abs(quantity) to a
\* batch of the product that holds the maximum available stock of the
\* product's batches before the credit.
C8_CreditsLargest ==
   (/\ pc = "allocating"
    /\ idx <= Len(sale_order_df)
    /\ sale_order_df[idx].quantity < 0
    /\ sale_order_df[idx].matched_product_name \in DOMAIN batch_inventory) =>
      \E step \in {LineStep(batch_inventory, processing_cache, temp_files.catalog,
                            sale_order_df[idx], idx)},
         before \in {batch_inventory[sale_order_df[idx].matched_product_name]} :
         /\ Len(step.rows) = 1
         /\ \E pos \in 1..Len(before) :
               /\ \A other \in 1..Len(before) :
                     before[other].available_stock <= before[pos].available_stock
               /\ step.inventory =
                     [batch_inventory EXCEPT
                        ![sale_order_df[idx].matched_product_name][pos].available_stock =
                           @ - sale_order_df[idx].quantity]

\* A row that is fully allocated with merchant score 100.
FullyAllocated(r) ==
   /\ r.product_error = "" /\ r.merchant_error = ""
   /\ r.batch_id # "" /\ r.product_id # ""
   /\ r.merchant_match_score = 100

\* C9: for an order of the output whose rows are all fully allocated with
\* merchant score 100: a row with product score 69 puts the order in the error
\* table; without such a row, a row with score 70 and no user confirmation
\* puts it in the partial table; rows that all have score 100 put it in the
\* valid table.
C9_ScoreBands ==
   \E all \in {output_file.valid \o output_file.partial \o output_file.error} :
      \A o \in Ids(all) :
         \E rows \in {SelectIdx(all, {i \in 1..Len(all) : all[i].order_id = o})} :
            (\A i \in 1..Len(rows) : FullyAllocated(rows[i])) =>
               /\ (\E i \in 1..Len(rows) : rows[i].product_match_score = 69)
                     => o \in Ids(output_file.error)
               /\ (/\ \A i \in 1..Len(rows) : rows[i].product_match_score # 69
                   /\ \E i \in 1..Len(rows) :
                         /\ rows[i].product_match_score = 70
                         /\ ~rows[i].user_confirmed_match)
                     => o \in Ids(output_file.partial)
               /\ (\A i \in 1..Len(rows) : rows[i].product_match_score = 100)
                     => o \in Ids(output_file.valid)

\* A run has put a fully allocated order of score 70 without confirmation in
\* the partial table and a fully allocated order of score 69 in the error
\* table.
C9_Witness ==
   /\ \E i \in 1..Len(output_file.partial) :
         /\ FullyAllocated(output_file.partial[i])
         /\ output_file.partial[i].product_match_score = 70
         /\ ~output_file.partial[i].user_confirmed_match
   /\ \E i \in 1..Len(output_file.error) :
         /\ FullyAllocated(output_file.error[i])
         /\ output_file.error[i].product_match_score = 69
         /\ \A j \in 1..Len(output_file.error) : FullyAllocated(output_file.error[j])

\* The variant scenario: "gizmo" (product_id X, one batch b1 of stock 5) and
\* "widget pro" (product_id X, one batch b2 of stock 10), "gizmo" sorting
\* first, the variant decision "gizmo|widget pro" cached as true, and the
\* order for 12 units of "gizmo" processed.
VariantScenario ==
   /\ temp_files \in ScenarioInputs
   /\ pc = "allocating"
   /\ idx = 2
   /\ cache_key(GZ, WP) \in DOMAIN cache_at_call.variants
   /\ cache_at_call.variants[cache_key(GZ, WP)]

\* The (batch_id, quantity, product_error) triples of the allocated rows, in
\* order.
Portions(rows) ==
   [i \in 1..Len(rows) |-> <<rows[i].batch_id, rows[i].quantity, rows[i].product_error>>]

\* C10 as stated: the variant scenario allocates 5 units from the batch of
\* "gizmo" and 7 units from the batch of "widget pro".
C10_FiveAndSeven ==
   VariantScenario => Portions(allocated_rows) = <<<<"b1", 5, "">>, <<"b2", 7, "">>>>

\* C10: the variant scenario allocates successfully in two rows, 10 units
\* from the batch of "widget pro" (the larger stock of the pool) and then 2
\* units from the batch of "gizmo".
C10_LargestFirst ==
   VariantScenario =>
      /\ Portions(allocated_rows) = <<<<"b2", 10, "">>, <<"b1", 2, "">>>>
      /\ batch_inventory[GZ][1].available_stock = 3
      /\ batch_inventory[WP][1].available_stock = 0

C10_Witness == VariantScenario /\ Len(allocated_rows) = 2

\* The related-product scenario with the related decision
\* "widget pro|widget pro max" cached as true and the order processed.
RelatedScenario ==
   /\ temp_files \in RelatedScenarioInputs
   /\ pc = "allocating"
   /\ idx = 2
   /\ cache_key(WP, WPM) \in DOMAIN cache_at_call.related
   /\ cache_at_call.related[cache_key(WP, WPM)]

\* C11: in the related-product scenario the order for 50 units is allocated
\* successfully: every row is a success row, the quantities sum to 50, and
\* there are rows from a batch of "widget pro" and from a batch of
\* "widget pro max".
C11_RelatedCovers ==
   RelatedScenario =>
      /\ \A i \in 1..Len(allocated_rows) :
            allocated_rows[i].product_error = "" /\ allocated_rows[i].batch_id # ""
      /\ SumSeq(Quantities(allocated_rows)) = 50
      /\ \E i \in 1..Len(allocated_rows) : allocated_rows[i].batch_id = "b1"
      /\ \E i \in 1..Len(allocated_rows) : allocated_rows[i].batch_id = "b3"

C11_Witness ==
   RelatedScenario /\ Portions(allocated_rows) = <<<<"b3", 40, "">>, <<"b1", 10, "">>>>

\* The order ids of the rows of a sheet or table.
RowIds(rows) == {rows[i].order_id : i \in 1..Len(rows)}

\* The position of the first row of an order in a table.
FirstRow(df, order_id) ==
   CHOOSE i \in 1..Len(df) :
      df[i].order_id = order_id /\ \A j \in 1..(i - 1) : df[j].order_id # order_id

\* The sheets page the table df: every sheet holds at most
\* MAX_ORDERS_PER_SHEET orders and every sheet but the last exactly that
\* many; a sheet holds all the rows of its orders and no two sheets share an
\* order; the orders of a sheet appear in df before those of the next sheet.
Paged(df, sheets) ==
   \E ids \in {[k \in 1..Len(sheets) |-> RowIds(sheets[k].rows)]} :
      /\ Len(sheets) >= 1
      /\ \A k \in 1..Len(sheets) : Cardinality(ids[k]) <= MAX_ORDERS_PER_SHEET
      /\ \A k \in 1..(Len(sheets) - 1) : Cardinality(ids[k]) = MAX_ORDERS_PER_SHEET
      /\ \A k \in 1..Len(sheets) :
            Range(sheets[k].rows) = {df[i] : i \in {j \in 1..Len(df) : df[j].order_id \in ids[k]}}
      /\ \A k \in 1..Len(sheets) : \A m \in 1..Len(sheets) : k # m => ids[k] \cap ids[m] = {}
      /\ UNION {ids[k] : k \in 1..Len(sheets)} = RowIds(df)
      /\ \E first \in {[o \in RowIds(df) |-> FirstRow(df, o)]} :
            \A k \in 1..(Len(sheets) - 1) :
               \A a \in ids[k] : \A b \in ids[k + 1] : first[a] < first[b]

\* One sheet holds all the rows.
OneSheet(df, sheets) == Len(sheets) = 1 /\ sheets[1].rows = df

\* C12 as stated: a valid table of more than 200 orders is paged, and one of
\* 200 or fewer orders gives exactly one sheet holding all rows.
C12_AsStated ==
   pc = "written" =>
      \E df \in {output_file.valid}, sheets \in {output_file.valid_sheets} :
         IF Cardinality(RowIds(df)) > 200 THEN Paged(df, sheets) ELSE OneSheet(df, sheets)

\* C12: a valid table of more than 200 orders is paged; one of 1 to 200
\* orders gives exactly one sheet holding all rows; an empty valid table
\* gives no sheet.
C12_Sheets ==
   pc = "written" =>
      \E df \in {output_file.valid}, sheets \in {output_file.valid_sheets} :
         IF Cardinality(RowIds(df)) > 200 THEN Paged(df, sheets)
         ELSE IF Len(df) > 0 THEN OneSheet(df, sheets)
         ELSE Len(sheets) = 0

\* 201 single-row orders have been split into sheets of 200 and 1.
C12_Witness ==
   /\ pc = "written"
   /\ Len(output_file.valid) = 201
   /\ Cardinality(RowIds(output_file.valid)) = 201
   /\ Len(output_file.valid_sheets) = 2
   /\ Len(output_file.valid_sheets[1].rows) = 200
   /\ Len(output_file.valid_sheets[2].rows) = 1

\* C13: when the next line of the loop has a positive quantity and a product
\* match score below 70 (or no match), the iteration emits exactly one error
\* row and leaves every batch's available_stock unchanged.
C13_NoAllocationBelowBand ==
   (/\ pc = "allocating"
    /\ idx <= Len(sale_order_df)
    /\ sale_order_df[idx].quantity > 0
    /\ sale_order_df[idx].product_match_score < 70) =>
      \E step \in {LineStep(batch_inventory, processing_cache, temp_files.catalog,
                            sale_order_df[idx], idx)} :
         /\ step.inventory = batch_inventory
         /\ Len(step.rows) = 1
         /\ step.rows[1].product_error # ""
         /\ step.rows[1].batch_id = ""

\* The lines of the last completed run that a table represents.
LinesIn(table) == {table[i].line : i \in 1..Len(table)}

\* A run has completed and its tables are those of allocated_rows.
RunCompleted == pc = "idle" /\ processing_complete

\* C14: a return line (quantity < 0) whose product is unmatched credits no
\* batch, and after the run its row is in the error table and not in the
\* return table.
C14_UnmatchedReturnIsError ==
   /\ (/\ pc = "allocating"
       /\ idx <= Len(sale_order_df)
       /\ sale_order_df[idx].quantity < 0
       /\ sale_order_df[idx].matched_product_name = "") =>
         LineStep(batch_inventory, processing_cache, temp_files.catalog,
                  sale_order_df[idx], idx).inventory = batch_inventory
   /\ RunCompleted =>
         \A i \in 1..Len(allocated_rows) :
            (allocated_rows[i].quantity < 0 /\ allocated_rows[i].matched_product_name = "") =>
               /\ allocated_rows[i].line \in LinesIn(output_file.error)
               /\ allocated_rows[i].line \notin LinesIn(output_file.returns)

\* Two names are equal up to case and whitespace (and not blank).
SameName(a, b) == Len(LowerNames[a]) > 0 /\ LowerNames[a] = LowerNames[b]

\* The names a merchant name equals, among the shop names or the merchant
\* names of the merchant sheet.
ShopHits(merchant) ==
   {temp_files.merchants[i].shop_name : i \in
       {k \in 1..Len(temp_files.merchants) :
           SameName(merchant, temp_files.merchants[k].shop_name)}}

MerchantHits(merchant) ==
   {temp_files.merchants[i].merchant_name : i \in
       {k \in 1..Len(temp_files.merchants) :
           SameName(merchant, temp_files.merchants[k].merchant_name)}}

\* The rows of the valid, partial and error tables.
SaleRows == output_file.valid \o output_file.partial \o output_file.error

\* C15: every row of the result tables whose merchant name equals a shop_name
\* is resolved to that shop_name with score 100, even if it equals a
\* merchant_name too; otherwise one that equals a merchant_name is resolved
\* to it with score 100; otherwise the row has score 0, no matched name and
\* the error "Merchant not matched".
C15_MerchantOrder ==
   \A r \in Range(SaleRows) :
      \E shops \in {ShopHits(r.merchant_name)}, names \in {MerchantHits(r.merchant_name)} :
         IF shops # {}
         THEN /\ r.merchant_find_status = "shop_name"
              /\ r.merchant_match_score = 100
              /\ r.matched_shop_name \in shops
              /\ r.merchant_error = ""
         ELSE IF names # {}
         THEN /\ r.merchant_find_status = "merchant_name"
              /\ r.merchant_match_score = 100
              /\ r.matched_shop_name \in names
              /\ r.merchant_error = ""
         ELSE /\ r.merchant_find_status = "not_found"
              /\ r.merchant_match_score = 0
              /\ r.matched_shop_name = ""
              /\ r.merchant_error = "Merchant not matched"

\* A run has resolved a merchant that equals both a shop_name and a
\* merchant_name against shop_name, and another against merchant_name.
C15_Witness ==
   /\ \E r \in Range(SaleRows) :
         /\ ShopHits(r.merchant_name) # {}
         /\ MerchantHits(r.merchant_name) # {}
         /\ r.merchant_find_status = "shop_name"
   /\ \E r \in Range(SaleRows) : r.merchant_find_status = "merchant_name"

\* C16: when the next line of the loop has quantity 0 (the value of qty for
\* a missing quantity too) and a matched product of the ledger, the iteration
\* emits exactly one row, with product_error "Zero quantity" and no batch, and
\* leaves every batch's available_stock unchanged.
C16_ZeroQuantity ==
   (/\ pc = "allocating"
    /\ idx <= Len(sale_order_df)
    /\ sale_order_df[idx].quantity = 0
    /\ sale_order_df[idx].matched_product_name \in DOMAIN batch_inventory) =>
      \E step \in {LineStep(batch_inventory, processing_cache, temp_files.catalog,
                            sale_order_df[idx], idx)} :
         /\ Len(step.rows) = 1
         /\ step.rows[1].product_error = "Zero quantity"
         /\ step.rows[1].batch_id = "" /\ step.rows[1].product_id = ""
         /\ step.rows[1].quantity = 0
         /\ step.inventory = batch_inventory

\* A zero-quantity line of a matched product is next after a sale has drained
\* stock.
C16_Witness ==
   /\ pc = "allocating"
   /\ idx = 2
   /\ idx <= Len(sale_order_df)
   /\ sale_order_df[idx].quantity = 0
   /\ sale_order_df[idx].matched_product_name = WP
   /\ Len(allocated_rows) = 1
   /\ allocated_rows[1].batch_id = "b1"

\* Every question of the session's lists has an answer of its kind in the
\* given decision cache.
EmittedAnswered(cache) ==
   \A kind \in Kinds :
      \A i \in 1..Len(all_questions[kind]) :
         all_questions[kind][i].cache_key \in DOMAIN cache[kind]

Outputs == {"valid", "partial", "error", "returns"}

\* C18: after a completed run every line of the parsed, sorted frame is
\* represented in exactly one of the tables valid, partial, error and returns,
\* under its own order_id, and the four tables hold as many rows as the
\* allocation loop emitted.
C18_EveryLineOnce ==
   RunCompleted =>
      /\ \A k \in 1..Len(sale_order_df) :
            /\ Cardinality({t \in Outputs : k \in LinesIn(output_file[t])}) = 1
            /\ \A t \in Outputs :
                  \A i \in 1..Len(output_file[t]) :
                     output_file[t][i].line = k =>
                        output_file[t][i].order_id = sale_order_df[k].order_id
      /\ \A t \in Outputs : LinesIn(output_file[t]) \subseteq 1..Len(sale_order_df)
      /\ Len(output_file.valid) + Len(output_file.partial) + Len(output_file.error)
            + Len(output_file.returns) = Len(allocated_rows)

\* A completed run of two lines of one order: one is in the return table, the
\* other in the error table.
C18_Witness ==
   /\ RunCompleted
   /\ Len(sale_order_df) = 2
   /\ sale_order_df[1].order_id = sale_order_df[2].order_id
   /\ Len(output_file.returns) = 1
   /\ Len(output_file.error) = 1
   /\ output_file.returns[1].line # output_file.error[1].line

\* The units sold from a batch so far: the quantities of the successfully
\* allocated rows that carry its batch_id.
SoldFrom(batch_id) ==
   SumSeq([i \in 1..Len(allocated_rows) |->
             IF /\ allocated_rows[i].batch_id = batch_id
                /\ allocated_rows[i].product_error = ""
                /\ allocated_rows[i].quantity > 0
             THEN allocated_rows[i].quantity ELSE 0])

\* The units returned to a batch so far: the return rows carry the batch_id
\* of the batch that was credited.
CreditedTo(batch_id) ==
   SumSeq([i \in 1..Len(allocated_rows) |->
             IF /\ allocated_rows[i].batch_id = batch_id
                /\ allocated_rows[i].quantity < 0
             THEN 0 - allocated_rows[i].quantity ELSE 0])

\* C19: at every point of a run, for every batch of the catalog, the
\* quantities on the successfully allocated rows drawn from the batch sum to
\* at most its catalog available_stock plus the returns credited to it so far.
C19_NoOverselling ==
   \A c \in 1..Len(temp_files.catalog) :
      SoldFrom(temp_files.catalog[c].batch_id) <=
         temp_files.catalog[c].available_stock
            + CreditedTo(temp_files.catalog[c].batch_id)

\* A batch has sold more than its catalog stock, after a return was credited
\* to it, and as much as the stock and the credit allow.
C19_Witness ==
   \E c \in 1..Len(temp_files.catalog) :
      /\ CreditedTo(temp_files.catalog[c].batch_id) > 0
      /\ SoldFrom(temp_files.catalog[c].batch_id) > temp_files.catalog[c].available_stock
      /\ SoldFrom(temp_files.catalog[c].batch_id) =
            temp_files.catalog[c].available_stock
               + CreditedTo(temp_files.catalog[c].batch_id)

\* C20: while the engine is in its allocation loop, having processed a
\* prefix of the sorted lines, every product of the catalog has the same
\* total available stock in the engine's ledger as in the collector's working
\* ledger after the same prefix.
C20_CollectorTracksEngine ==
   pc = "allocating" =>
      \E working \in {working_batch_inventory(
                         collector_frame(temp_files.orders, temp_files.catalog),
                         idx - 1, BuildInventory(temp_files.catalog))} :
         \A name \in DOMAIN batch_inventory :
            StockOf(working, name) = StockOf(batch_inventory, name)

\* The value of a decimal digit character.
Digit(c) == Code[c] - Code["0"]

\* The calendar day a "%d/%m/%Y" string stands for, as the number yyyymmdd.
CalendarDay(date) ==
   The({(Digit(c[7]) * 1000 + Digit(c[8]) * 100 + Digit(c[9]) * 10 + Digit(c[10])) * 10000
           + (Digit(c[4]) * 10 + Digit(c[5])) * 100
           + (Digit(c[1]) * 10 + Digit(c[2])) :
          c \in {Chars[date]}})

\* The lines of a sorted frame come in ascending calendar order: a line of
\* an earlier day is at an earlier position.
Chronological(frame) ==
   \A a \in 1..Len(frame), b \in 1..Len(frame) :
      CalendarDay(frame[a].order_date) < CalendarDay(frame[b].order_date) => a < b

\* C21: the frame the engine's allocation loop walks and the frame the
\* collector's simulation loop walks are in ascending calendar order of
\* order_date.
C21_Chronological ==
   (pc = "allocating" /\ idx = 1) =>
      /\ Chronological(sale_order_df)
      /\ Chronological(collector_frame(temp_files.orders, temp_files.catalog))

\* Whether the step of a line of product pname had the product name in its
\* pool: the matched product itself, or a variant or related product whose
\* decision the step looked up and found true.
InPool(step, pname, name) ==
   \/ name = pname
   \/ \E kind \in {"variants", "related"} :
         /\ [kind |-> kind, key |-> cache_key(pname, name)] \in step.lookups
         /\ step.cache[kind][cache_key(pname, name)]

\* C22: when the next line of the loop has a positive quantity and a matched
\* product of the ledger, and its iteration cannot satisfy it, the iteration
\* emits exactly one row, an error row of the full quantity without a batch,
\* and the ledger it hands to the later lines has every product of the pool
\* at stock 0 and every other product unchanged.
C22_FailureDrains ==
   (/\ pc = "allocating"
    /\ idx <= Len(sale_order_df)
    /\ sale_order_df[idx].quantity > 0
    /\ sale_order_df[idx].matched_product_name \in DOMAIN batch_inventory) =>
      \E step \in {LineStep(batch_inventory, processing_cache, temp_files.catalog,
                            sale_order_df[idx], idx)} :
         (\E i \in 1..Len(step.rows) : step.rows[i].batch_id = "") =>
            /\ Len(step.rows) = 1
            /\ step.rows[1].product_error # ""
            /\ step.rows[1].quantity = sale_order_df[idx].quantity
            /\ \A name \in DOMAIN batch_inventory :
                  IF InPool(step, sale_order_df[idx].matched_product_name, name)
                  THEN \A b \in 1..Len(step.inventory[name]) :
                          step.inventory[name][b].available_stock = 0
                  ELSE step.inventory[name] = batch_inventory[name]

\* A line failed after draining stock of its own product and of an accepted
\* variant or related product, and a later line is about to run on the
\* drained ledger.
C22_Witness ==
   /\ pc = "allocating"
   /\ idx = 2
   /\ idx <= Len(sale_order_df)
   /\ Len(allocated_rows) = 1
   /\ allocated_rows[1].batch_id = ""
   /\ allocated_rows[1].quantity > 0
   /\ allocated_rows[1].matched_product_name = WP
   /\ \E kind \in {"variants", "related"} :
         \E k \in DOMAIN cache_at_call[kind] : cache_at_call[kind][k]
   /\ \E working \in {BuildInventory(temp_files.catalog)} :
         /\ StockOf(working, WP) > 0
         /\ StockOf(working, WPM) > 0
         /\ StockOf(batch_inventory, WP) = 0
         /\ StockOf(batch_inventory, WPM) = 0

\* C23: every step that enters the allocation loop starts it on the ledger
\* built from the available_stock values of the catalog, whatever an earlier
\* invocation of the session consumed or credited.
C23_FreshLedger ==
   [][(pc = "idle" /\ pc' = "allocating") =>
         batch_inventory' = BuildInventory(temp_files.catalog)]_vars

\* A second invocation of the session is at its first line, after an
\* invocation that allocated stock from a batch.
C23_Witness ==
   /\ pc = "allocating"
   /\ idx = 1
   /\ Len(history) >= 1
   /\ \E i \in 1..Len(history[1].tables.valid) :
         /\ history[1].tables.valid[i].batch_id # ""
         /\ history[1].tables.valid[i].quantity > 0
   /\ batch_inventory = BuildInventory(temp_files.catalog)

\* C24: when the next line of the loop has a positive quantity and its
\* matched product's own batches hold at least that quantity, the iteration
\* looks up no variant and no related decision, leaves the cache as it is, and
\* every row it emits draws from a batch of the matched product, the rows
\* adding up to the ordered quantity.
C24_OwnStockFirst ==
   (/\ pc = "allocating"
    /\ idx <= Len(sale_order_df)
    /\ sale_order_df[idx].quantity > 0
    /\ sale_order_df[idx].matched_product_name \in DOMAIN batch_inventory
    /\ StockOf(batch_inventory, sale_order_df[idx].matched_product_name)
          >= sale_order_df[idx].quantity) =>
      \E step \in {LineStep(batch_inventory, processing_cache, temp_files.catalog,
                            sale_order_df[idx], idx)} :
         /\ step.lookups = {}
         /\ step.cache = processing_cache
         /\ Len(step.rows) >= 1
         /\ \A i \in 1..Len(step.rows) :
               /\ step.rows[i].src = sale_order_df[idx].matched_product_name
               /\ step.rows[i].product_error = ""
               /\ \E b \in 1..Len(batch_inventory[step.rows[i].src]) :
                     batch_inventory[step.rows[i].src][b].batch_id = step.rows[i].batch_id
         /\ SumSeq(Quantities(step.rows)) = sale_order_df[idx].quantity
         /\ \A name \in DOMAIN batch_inventory :
               name # sale_order_df[idx].matched_product_name =>
                  step.inventory[name] = batch_inventory[name]

\* The next line can be served from its own product's two batches, while a
\* variant in stock has a cached yes.
C24_Witness ==
   /\ pc = "allocating"
   /\ idx <= Len(sale_order_df)
   /\ sale_order_df[idx].quantity > MaxStock
   /\ sale_order_df[idx].matched_product_name = WP
   /\ StockOf(batch_inventory, WP) >= sale_order_df[idx].quantity
   /\ StockOf(batch_inventory, WPM) > 0
   /\ cache_key(WP, WPM) \in DOMAIN processing_cache.variants
   /\ processing_cache.variants[cache_key(WP, WPM)]

\* Two differently named products of the catalog share a non-empty
\* product_id.
SharesProductId(cat, p, q) ==
   /\ p # q
   /\ \E i \in 1..Len(cat), j \in 1..Len(cat) :
         /\ cat[i].product_name = p
         /\ cat[j].product_name = q
         /\ cat[i].product_id = cat[j].product_id
         /\ cat[i].product_id # ""

\* C25: no related question of the collector and no related lookup of the
\* engine is about a product and one of its variants (a product sharing its
\* product_id).
C25_VariantsNotRelated ==
   \A p \in DOMAIN BuildInventory(temp_files.catalog) :
      \A q \in DOMAIN BuildInventory(temp_files.catalog) :
         SharesProductId(temp_files.catalog, p, q) =>
            /\ [kind |-> "related", key |-> cache_key(p, q)] \notin lookups
            /\ \A i \in 1..Len(all_questions.related) :
                  all_questions.related[i].cache_key # cache_key(p, q)

\* The product names of the uploaded catalog.
CatalogNames == {temp_files.catalog[i].product_name : i \in 1..Len(temp_files.catalog)}

\* Two differently named products have rows whose product_id cells hold the
\* same value.
SharesIdCell(cat, p, q) ==
   /\ p # q
   /\ \E i \in 1..Len(cat), j \in 1..Len(cat) :
         /\ cat[i].product_name = p
         /\ cat[j].product_name = q
         /\ cat[i].product_id = cat[j].product_id
         /\ cat[i].product_id \notin {NaN, ""}

\* C26: for any two differently named products p and q of the catalog that
\* share a product_id, q is among the variants to check for an order matched
\* to p (and, p and q being any two, p among those for q).
C26_VariantSymmetry ==
   \E pv \in {product_variants(temp_files.catalog)} :
      \A p \in CatalogNames, q \in CatalogNames :
         SharesIdCell(temp_files.catalog, p, q) => q \in Range(variants_to_check(pv, p))

\* C27: two products of the catalog whose product_id cells are empty are not
\* variants of each other: unless their names also share a product_id that
\* is present, neither is among the variants to check for the other, in the
\* engine's lookup and in the collector's alike.
C27_EmptyIdNoVariant ==
   \E pv \in {product_variants(temp_files.catalog)} :
      \A p \in CatalogNames, q \in CatalogNames :
         (/\ p # q
          /\ \E i \in 1..Len(temp_files.catalog) :
                /\ temp_files.catalog[i].product_name = p
                /\ temp_files.catalog[i].product_id \in {NaN, ""}
          /\ \E j \in 1..Len(temp_files.catalog) :
                /\ temp_files.catalog[j].product_name = q
                /\ temp_files.catalog[j].product_id \in {NaN, ""}
          /\ ~SharesIdCell(temp_files.catalog, p, q)
          /\ ~SharesIdCell(temp_files.catalog, q, p)) =>
            /\ q \notin Range(variants_to_check(pv, p))
            /\ [kind |-> "variants", key |-> cache_key(p, q)] \notin lookups
            /\ \A i \in 1..Len(all_questions.variants) :
                  all_questions.variants[i].cache_key # cache_key(p, q)

C29_ErrorRowsExplained ==
   \A i \in 1..Len(output_file.error) : output_file.error[i].error_message # ""

\* The three tables of the rows that are not returns.
SaleOutputs == {"valid", "partial", "error"}

\* C30: after a completed run every row of negative quantity is in the
\* return table and in no other table, no row of quantity >= 0 is in the
\* return table, and an order is in the error (partial) table only on account
\* of one of its own rows of quantity >= 0: a row with a product or merchant
\* error or of category "error" (of category "partial").
C30_ReturnsApart ==
   RunCompleted =>
      /\ \A i \in 1..Len(allocated_rows) :
            IF allocated_rows[i].quantity < 0
            THEN /\ allocated_rows[i].line \in LinesIn(output_file.returns)
                 /\ \A t \in SaleOutputs : allocated_rows[i].line \notin LinesIn(output_file[t])
            ELSE allocated_rows[i].line \notin LinesIn(output_file.returns)
      /\ \A i \in 1..Len(output_file.returns) : output_file.returns[i].return_qty > 0
      /\ \A t \in SaleOutputs :
            \A i \in 1..Len(output_file[t]) : output_file[t][i].quantity >= 0
      /\ \A i \in 1..Len(output_file.error) :
            \E j \in 1..Len(output_file.error) :
               /\ output_file.error[j].order_id = output_file.error[i].order_id
               /\ \/ output_file.error[j].product_error # ""
                  \/ output_file.error[j].merchant_error # ""
                  \/ output_file.error[j].match_category = "error"
      /\ \A i \in 1..Len(output_file.partial) :
            \E j \in 1..Len(output_file.partial) :
               /\ output_file.partial[j].order_id = output_file.partial[i].order_id
               /\ output_file.partial[j].match_category = "partial"

\* A completed run whose return row carries an error_message while the other
\* row of its order is in the valid table.
C30_Witness ==
   /\ RunCompleted
   /\ Len(output_file.returns) = 1
   /\ Len(output_file.valid) = 1
   /\ output_file.returns[1].error_message # ""
   /\ output_file.returns[1].order_id = output_file.valid[1].order_id

\* C31: within each of the three question lists no two questions have the
\* same cache_key, and the cache_key of a question is its first name, a "|"
\* and its second name.
C31_QuestionKeys ==
   \A kind \in Kinds :
      /\ \A i \in 1..Len(all_questions[kind]), j \in 1..Len(all_questions[kind]) :
            all_questions[kind][i].cache_key = all_questions[kind][j].cache_key => i = j
      /\ \A i \in 1..Len(all_questions[kind]) :
            all_questions[kind][i].cache_key =
               all_questions[kind][i].first \o "|" \o all_questions[kind][i].second

\* Two sales of a product without stock have been collected, both short of
\* stock with the same variant in stock, and the variant list holds one
\* question.
C31_Witness ==
   /\ all_questions_collected
   /\ Len(temp_files.orders) = 2
   /\ \A i \in 1..2 :
         /\ temp_files.orders[i].product_name = WP
         /\ temp_files.orders[i].quantity = 1
   /\ \E working \in {BuildInventory(temp_files.catalog)} :
         /\ StockOf(working, WP) = 0
         /\ StockOf(working, WPM) > 0
   /\ Len(all_questions.variants) = 1
   /\ all_questions.variants[1].cache_key = "widget pro|widget pro max"

\* The engine's match of an order line scores in [70, 100).
ScoresInBand(row) ==
   /\ row.matched_product_name # ""
   /\ 70 <= row.product_match_score
   /\ row.product_match_score < 100

\* C32: while the engine runs on the collected questions, every line whose
\* match the engine scores in [70, 100) has a partial-match question whose
\* cache_key is the key the engine builds for the line (the order product, a
\* "|" and the matched product), and every partial-match question is the
\* question of such a line: none belongs to a line scoring 100 or below 70.
C32_PartialQuestions ==
   (pc = "allocating" /\ all_questions_collected) =>
      /\ \A k \in 1..Len(sale_order_df) :
            ScoresInBand(sale_order_df[k]) =>
               \E i \in 1..Len(all_questions.partial_matches) :
                  all_questions.partial_matches[i].cache_key =
                     sale_order_df[k].product_name \o "|"
                        \o sale_order_df[k].matched_product_name
      /\ \A i \in 1..Len(all_questions.partial_matches) :
            /\ \E k \in 1..Len(sale_order_df) :
                  /\ ScoresInBand(sale_order_df[k])
                  /\ all_questions.partial_matches[i].first = sale_order_df[k].product_name
                  /\ all_questions.partial_matches[i].second =
                        sale_order_df[k].matched_product_name
            /\ \A k \in 1..Len(sale_order_df) :
                  sale_order_df[k].product_name = all_questions.partial_matches[i].first =>
                     ScoresInBand(sale_order_df[k])

\* The engine runs on a frame with a line scoring 70 and a line scoring 100
\* or 69, and the collector asked one partial-match question.
C32_Witness ==
   /\ pc = "allocating"
   /\ all_questions_collected
   /\ Len(sale_order_df) = 2
   /\ \E k \in 1..2 : sale_order_df[k].product_match_score = 70
   /\ \E k \in 1..2 : sale_order_df[k].product_match_score = 69
   /\ Len(all_questions.partial_matches) = 1
   /\ all_questions.partial_matches[1].cache_key = "widxxx pro|widget pro"

\* The batches of the pool of a step: (product, position) of every batch of
\* the line's product and of the products the step accepted.
PoolBatches(step, pname) ==
   UNION {{[prod |-> name, pos |-> b] : b \in 1..Len(batch_inventory[name])} :
            name \in {n \in DOMAIN batch_inventory : InPool(step, pname, n)}}

RECURSIVE StockSum(_)
\* The stock the batches of a set held before the step.
StockSum(refs) ==
   IF refs = {} THEN 0
   ELSE LET ref == CHOOSE r \in refs : TRUE
        IN batch_inventory[ref.prod][ref.pos].available_stock + StockSum(refs \ {ref})

\* The least number of pool batches whose stock reaches qty.
FewestBatches(refs, qty) ==
   CHOOSE n \in 0..Cardinality(refs) :
      /\ \E S \in SUBSET refs : Cardinality(S) = n /\ StockSum(S) >= qty
      /\ \A S \in SUBSET refs : StockSum(S) >= qty => Cardinality(S) >= n

\* The stock, before the step, of the batch a row draws from.
StockBefore(r) ==
   LET b == CHOOSE k \in 1..Len(batch_inventory[r.src]) :
               batch_inventory[r.src][k].batch_id = r.batch_id
   IN batch_inventory[r.src][b].available_stock

\* C33: when the next line of the loop has a positive quantity and a matched
\* product of the ledger, and its iteration satisfies it, the rows of the
\* iteration draw from batches in descending order of the stock they held
\* before the iteration, and their number is the least number of batches of
\* the pool whose stock sums to at least the ordered quantity.
C33_FewestRows ==
   (/\ pc = "allocating"
    /\ idx <= Len(sale_order_df)
    /\ sale_order_df[idx].quantity > 0
    /\ sale_order_df[idx].matched_product_name \in DOMAIN batch_inventory) =>
      \E step \in {LineStep(batch_inventory, processing_cache, temp_files.catalog,
                            sale_order_df[idx], idx)} :
         (\A i \in 1..Len(step.rows) : step.rows[i].batch_id # "") =>
            /\ \A i \in 1..(Len(step.rows) - 1) :
                  StockBefore(step.rows[i]) >= StockBefore(step.rows[i + 1])
            /\ Len(step.rows) =
                  FewestBatches(PoolBatches(step, sale_order_df[idx].matched_product_name),
                                sale_order_df[idx].quantity)

\* A line was satisfied in one row by the fuller batch of an accepted product
\* although its own product, first in the pool, had stock too.
C33_Witness ==
   /\ pc = "allocating"
   /\ idx = 2
   /\ Len(allocated_rows) = 1
   /\ allocated_rows[1].batch_id # ""
   /\ allocated_rows[1].line = 1
   /\ allocated_rows[1].quantity = 2
   /\ allocated_rows[1].src # allocated_rows[1].matched_product_name
   /\ \E b \in 1..Len(batch_inventory[allocated_rows[1].matched_product_name]) :
         batch_inventory[allocated_rows[1].matched_product_name][b].available_stock = 1

\* C34: in the tables of process_britannia_sales / process_unicharm_sales no
\* order of the valid table holds a non-return row whose product match
\* scores below 70: such an order is in the error table.
C34_LowScoreIsError ==
   pc = "brand_done" =>
      \A i \in 1..Len(allocated_rows) :
         (allocated_rows[i].quantity >= 0 /\ allocated_rows[i].product_match_score < 70) =>
            /\ \A v \in 1..Len(output_file.valid) :
                  output_file.valid[v].order_id # allocated_rows[i].order_id
            /\ \E e \in 1..Len(output_file.error) :
                  output_file.error[e].line = allocated_rows[i].line

\* C35: when the next order line of process_britannia_sales /
\* process_unicharm_sales has a positive quantity and a matched product of the
\* ledger and its iteration satisfies it, every row of the iteration draws
\* from a batch that held, before the iteration, at least as much stock as
\* every batch of the product that the earlier rows of the iteration did not
\* draw from (fullest first), whatever the earlier lines did to the ledger.
C35_FullestFirst ==
   (/\ pc = "brand_allocating"
    /\ idx <= Len(sale_order_df)
    /\ sale_order_df[idx].quantity > 0
    /\ sale_order_df[idx].matched_product_name \in DOMAIN batch_inventory) =>
      \E step \in {britannia_allocate_row(batch_inventory, sale_order_df[idx], idx)} :
         (\A i \in 1..Len(step.rows) : step.rows[i].batch_id # "") =>
            \A i \in 1..Len(step.rows) :
               \A b \in 1..Len(batch_inventory[sale_order_df[idx].matched_product_name]) :
                  (\A j \in 1..(i - 1) :
                      step.rows[j].batch_id #
                         batch_inventory[sale_order_df[idx].matched_product_name][b].batch_id)
                     => StockBefore(step.rows[i]) >=
                           batch_inventory[sale_order_df[idx].matched_product_name][b]
                              .available_stock

\* C36: the engine leaves the decision cache as it received it: at every
\* point of a run, and so after it, the cache holds exactly the keys and
\* values it held when process_hul_sales_interactive was called.
C36_CacheReadOnly ==
   pc = "allocating" => processing_cache = cache_at_call

\* C37: between one question collection and the next, a step of the app that
\* is taken before the engine runs keeps every answer: a cache_key that has a
\* value in processing_cache has the same value after the step.
C37_AnsweredOnce ==
   [][(/\ all_questions_collected
       /\ all_questions_collected'
       /\ pc = "idle"
       /\ pc' = "idle") =>
         \A kind \in Kinds :
            \A key \in DOMAIN processing_cache[kind] :
               /\ key \in DOMAIN processing_cache'[kind]
               /\ processing_cache'[kind][key] = processing_cache[kind][key]]_vars

\* Two collected questions are answered, one yes and one no, and the engine
\* has not been started: the second answer was given while the first was in
\* the cache.
C37_Witness ==
   /\ pc = "idle"
   /\ all_questions_collected
   /\ ~processing_started
   /\ \E k1 \in DOMAIN processing_cache.variants :
         processing_cache.variants[k1]
   /\ \E k2 \in DOMAIN processing_cache.related :
         ~processing_cache.related[k2]

\* C38: every question collection and every entry into the engine reads the
\* files that are in the uploaders at that moment: temp_files, whose paths
\* the collector and the engine are given, holds the uploaded files.
C38_ReadsUploadedFiles ==
   [][(\/ (~all_questions_collected /\ all_questions_collected')
       \/ (pc = "idle" /\ pc' = "allocating")) =>
         (uploaded # <<>> /\ temp_files = uploaded[1])]_vars

====
